---- MODULE Spec2Model ----
(***************************************************************************)
(* A model of the system-tray client (src/src/client.rs) and of the parts  *)
(* of the StatusNotifierWatcher service it talks to                        *)
(* (src/src/dbus/status_notifier_watcher.rs).                              *)
(*                                                                         *)
(* Every task of the client is a process whose position is a "pc" field.   *)
(* An action is the code one task runs between two suspension points       *)
(* (.await): the reply or signal that resumes the task is drawn with \E,   *)
(* and everything the task does until it suspends again belongs to the     *)
(* same action.  Bus names and object paths are sequences of tokens, "/"   *)
(* being a token of its own, so that an address can be split as the code   *)
(* splits it.                                                              *)
(***************************************************************************)
EXTENDS Integers, Sequences, FiniteSets, Bags, TLC

(***************************************************************************)
(* Bounds of the model.                                                    *)
(***************************************************************************)
\* things that happen on the bus in one run: registrations, signals emitted by
\* peers, peers leaving, names acquired
MaxBusEvents == 3
\* events kept per address in the record of the broadcast channel
MaxLog == 4
\* events sent on the broadcast channel when it is modelled in detail
MaxSent == 35
\* method calls the watcher receives when it is modelled in detail
MaxCalls == 3
\* names Client::new tries for its host before one is free
MaxNames == 3
\* tokens of an address given to parse_address
MaxAddress == 4
\* entries in the updated array, and in the removed array, of one
\* ItemsPropertiesUpdated payload
MaxEntries == 2

(***************************************************************************)
(* Names (src/src/lib.rs, mod names) and the peers of the model.           *)
(***************************************************************************)
WATCHER_BUS == "org.kde.StatusNotifierWatcher"
ITEM_OBJECT == <<"/", "StatusNotifierItem">>

\* a well-known name the client's own connection acquires (its host name)
HOST_NAME == "org.freedesktop.StatusNotifierHost-1-1"
\* an item object that is not at the default path
ALT_OBJECT == <<"/", "org", "/", "item">>
MENU_PATH == <<"/", "MenuBar">>

\* unique bus names of the peers
Dests == {<<":1.1">>, <<":1.2">>}
Paths == {ITEM_OBJECT, ALT_OBJECT}
\* the peer that exports a menu, and the item objects each peer exports
HasMenu(d) == d = <<":1.1">>
PathsOf(d) == {ITEM_OBJECT}
Names == {WATCHER_BUS, HOST_NAME}

\* Option::None of a string or a menu, and of an object path
None == "None"
NoPath == <<>>
\* a property that is absent from a reply
NoProp == "absent"
\* the property dictionaries a GetAll reply can carry
Props == [Id : {NoProp, "foo"}, Status : {"Active"}, Menu : {NoPath, MENU_PATH}]
\* the replies to Get(Status): a string, or a value that is no string
StatusValues == {"Passive", "not-a-string"}
\* the layouts a GetLayout reply can decode to
Layouts == {"layout-1", "layout-2"}
\* members of the signals an item emits; "NewFoo" is one the client has no event for
Members == {"NewStatus"}

VARIABLES
    alive,        \* alive[d]: the unique name d has an owner on the bus
    watcherItems, \* the items set of the watcher that owns WATCHER_BUS
    regQueue,     \* ItemRegistered signals not yet taken by the stream task
    acqQueue,     \* NameAcquired signals not yet taken by the name task
    items,        \* the store: destination -> (item, menu cache)
    log,          \* log[d]: the events broadcast for address d, in order
    stream,       \* the task consuming ItemRegistered
    initial,      \* the task handling the items registered at startup
    trackers,     \* the running watch_item_properties tasks
    menus,        \* the running watch_menu tasks
    used,         \* what the environment has spent of its bounds
    consumer,     \* a consumer of the public API
    chan,         \* the broadcast channel in detail: its buffer and one receiver
    call,         \* call[shape]: the call of Client::activate made with that shape of request
    watcher,      \* the StatusNotifierWatcher in detail: sets, tasks, signals emitted
    ctor,         \* a call of Client::new or of attach_to, and the state of the bus it meets
    conv,         \* a decoding or parsing function on its own: its input and its result
    locks,        \* the mutexes in detail: who holds each, and where each task stands
    peer          \* peer[d]: the layout the menu of peer d has now

\* the variables of the client's tasks and of the bus they talk to
clientVars == <<alive, watcherItems, regQueue, acqQueue, items, log, stream, initial,
                trackers, menus, used, consumer>>

\* the variables of the parts that are modelled on their own
otherVars == <<chan, call, watcher, ctor, conv, locks, peer>>

\* what the actions of one part leave alone
exceptChan == <<clientVars, call, watcher, ctor, conv, locks, peer>>
exceptCall == <<clientVars, chan, watcher, ctor, conv, locks, peer>>
exceptCtor == <<clientVars, chan, call, watcher, conv, locks, peer>>
exceptConv == <<clientVars, chan, call, watcher, ctor, locks, peer>>
exceptLocks == <<clientVars, chan, call, watcher, ctor, conv, peer>>
\* the watcher tells from `alive` which names have an owner
exceptWatcher == <<watcherItems, regQueue, acqQueue, items, log, stream, initial,
                   trackers, menus, used, consumer, chan, call, ctor, conv, locks, peer>>

vars == <<clientVars, otherVars>>

(***************************************************************************)
(* Helpers.                                                                *)
(***************************************************************************)
RemoveAt(s, i) == SubSeq(s, 1, i - 1) \o SubSeq(s, i + 1, Len(s))

\* the index of the first "/" token of s, 0 if there is none
FirstSlash(s) ==
    IF \E i \in 1..Len(s) : s[i] = "/"
    THEN CHOOSE i \in 1..Len(s) : s[i] = "/" /\ \A j \in 1..(i - 1) : s[j] # "/"
    ELSE 0

\* a faulty split that leaves the "/" out of the path
parse_address_bare(address) ==
    LET i == FirstSlash(address) IN
    IF i = 0 THEN <<address, ITEM_OBJECT>>
    ELSE <<SubSeq(address, 1, i - 1), SubSeq(address, i + 1, Len(address))>>

\* the (destination, path) an address string stands for
parse_address(address) ==
    LET i == FirstSlash(address) IN
    IF i = 0 THEN <<address, ITEM_OBJECT>>
    ELSE <<SubSeq(address, 1, i - 1), SubSeq(address, i, Len(address))>>

\* the key the watcher stores for an item: format!("{service}{objpath}")
ItemKey(service, objpath) == service \o objpath

Ev(t, v) == [t |-> t, v |-> v]

\* tx.send(event) for address d
Send(l, d, e) == [l EXCEPT ![d] = Append(@, e)]

HasRoom(d, n) == Len(log[d]) + n <= MaxLog

(***************************************************************************)
(* The store (State = HashMap<String, (StatusNotifierItem, Option<TrayMenu>)>). *)
(***************************************************************************)
EmptyStore == [x \in {} |-> None]

\* a faulty insert that leaves the map as it was
InsertNothing(s, d, item) == s

\* items.insert(destination, (properties, None))
InsertItem(s, d, item) ==
    [x \in DOMAIN s \cup {d} |-> IF x = d THEN [item |-> item, menu |-> None] ELSE s[x]]

\* items.remove(destination)
RemoveItem(s, d) == [x \in DOMAIN s \ {d} |-> s[x]]

\* a faulty cache update that creates the entry it does not find
ReplaceMenuOrInsert(s, d, m) ==
    [x \in DOMAIN s \cup {d} |->
        IF x = d THEN [item |-> IF d \in DOMAIN s THEN s[d].item
                                ELSE [id |-> "None", status |-> "Unknown", menu |-> <<>>],
                       menu |-> m]
        ELSE s[x]]

\* if let Some((_, menu_cache)) = items.get_mut(destination) { menu_cache.replace(menu) }
ReplaceMenu(s, d, m) ==
    IF d \in DOMAIN s THEN [s EXCEPT ![d].menu = m] ELSE s

(***************************************************************************)
(* Decoding (src/src/item.rs).                                             *)
(***************************************************************************)
\* impl From<&str> for Status
StatusFrom(value) ==
    IF value \in {"Passive", "Active", "NeedsAttention"} THEN value ELSE "Unknown"

\* DBusProps::get_status: the default when the property is absent
get_status(props) ==
    IF props.Status = NoProp THEN "Unknown" ELSE StatusFrom(props.Status)

NoItem == [id |-> None, status |-> "Unknown", menu |-> NoPath]

\* StatusNotifierItem::try_from(DBusProps): Err when Id is missing
TryFromProps(props) ==
    IF props.Id # NoProp
    THEN [ok |-> TRUE,
          item |-> [id |-> props.Id, status |-> get_status(props),
                    menu |-> IF props.Menu = NoPath THEN NoPath ELSE props.Menu]]
    ELSE [ok |-> FALSE, item |-> NoItem]

\* get_item_properties: the GetAll reply, decoded
get_item_properties(reply) ==
    IF reply.err THEN [ok |-> FALSE, item |-> NoItem] ELSE TryFromProps(reply.props)

\* the replies a GetAll call to destination d can get: an error, or a dictionary
GetAllReplies(d) ==
    {[err |-> TRUE, props |-> [Id |-> NoProp, Status |-> NoProp, Menu |-> NoPath]]}
    \cup (IF alive[d]
          THEN {[err |-> FALSE, props |-> q] : q \in {x \in Props : x.Menu # NoPath <=> HasMenu(d)}}
          ELSE {})

\* get_update_event: Ok(Some(event)), Ok(None) or Err for a signal and the
\* reply to the Get call it causes
get_update_event(member, reply) ==
    IF reply = "error" THEN [ok |-> FALSE, some |-> FALSE, event |-> Ev(None, None)]
    ELSE IF member = "NewStatus"
         THEN IF reply = "not-a-string"
              THEN [ok |-> FALSE, some |-> FALSE, event |-> Ev(None, None)]
              ELSE [ok |-> TRUE, some |-> TRUE, event |-> Ev("Status", StatusFrom(reply))]
         ELSE [ok |-> TRUE, some |-> FALSE, event |-> Ev(None, None)]

(***************************************************************************)
(* Initial state: the client has been constructed, its three startup tasks *)
(* are spawned, and peers may have registered items with the watcher        *)
(* before.                                                                 *)
(***************************************************************************)
(***************************************************************************)
(* The broadcast channel of Client::new, broadcast::channel(32): a buffer  *)
(* that keeps the last CAPACITY values.  Values are numbered in send       *)
(* order; `sent` is the number of the last value sent, `next` the number   *)
(* of the value the receiver reads next (0: not subscribed), `last` what   *)
(* its last recv() returned, `got` how many values it was given, `lost`    *)
(* how many it was told it missed, `since` the last value sent before it   *)
(* subscribed.                                                             *)
(***************************************************************************)
CAPACITY == 32

\* `client` tells whether the Client, and with it the receiver it keeps, is
\* there; `subs` counts the receivers consumers hold and `gone` those they
\* dropped; `result` is what the send made last returned
NewChannel ==
    [sent |-> 0, next |-> 0, last |-> [kind |-> "none", v |-> 0],
     got |-> 0, lost |-> 0, since |-> 0,
     client |-> "alive", subs |-> 0, gone |-> 0, result |-> "none", exited |-> 0]

\* the number of the oldest value the buffer still holds
Oldest(c) == IF c.sent > CAPACITY THEN c.sent - CAPACITY + 1 ELSE 1

\* Sender::send: the value takes the place of the oldest one, whatever the
\* receivers have read
send(c) == [c EXCEPT !.sent = @ + 1]

\* Sender::subscribe: the receiver sees the values sent from now on
subscribe(c) == [c EXCEPT !.next = c.sent + 1, !.since = c.sent]

\* a faulty recv that skips overwritten values without saying so
recv_silent(c) ==
    LET from == IF c.next < Oldest(c) THEN Oldest(c) ELSE c.next IN
    [c EXCEPT !.next = from + 1, !.last = [kind |-> "value", v |-> from], !.got = @ + 1]

\* Receiver::recv when it does not wait: Lagged(n) and a jump to the oldest
\* value kept if the value to read was overwritten, else that value
recv(c) ==
    IF c.next < Oldest(c)
    THEN [c EXCEPT !.next = Oldest(c),
                   !.last = [kind |-> "lagged", v |-> Oldest(c) - c.next],
                   !.lost = @ + (Oldest(c) - c.next)]
    ELSE [c EXCEPT !.next = @ + 1, !.last = [kind |-> "value", v |-> c.next],
                   !.got = @ + 1]

(***************************************************************************)
(* Client::activate.                                                       *)
(***************************************************************************)
Shapes == {"MenuItem", "Default", "Secondary"}
\* submenu ids and screen coordinates of the requests
Args == {0, 1}

Requests(shape) ==
    IF shape = "MenuItem"
    THEN [shape : {shape}, address : Dests, menu_path : {MENU_PATH}, submenu_id : Args,
          x : {0}, y : {0}]
    ELSE [shape : {shape}, address : Dests, menu_path : {NoPath}, submenu_id : {0},
          x : Args, y : {0}]

PeerErrors == {"org.freedesktop.DBus.Error.UnknownMethod", "org.freedesktop.DBus.Error.Failed"}
\* what building the proxy gives
ProxyResults == {"ok", "connection-error"}
\* what the peer does with the call before the second is over
Replies ==
    [kind : {"ok", "timeout"}, err : {""}] \cup [kind : {"error"}, err : PeerErrors]

NoMethodCall == [dest |-> <<>>, path |-> NoPath, member |-> "", args |-> <<>>]
NoReply == [kind |-> "none", err |-> ""]
NoResult == [kind |-> "pending", err |-> "", logged |-> FALSE]
NoCall ==
    [pc |-> "idle", req |-> "none", sent |-> NoMethodCall, reply |-> NoReply,
     result |-> NoResult]

\* get_menu_proxy(address, menu_path) / get_notifier_item_proxy(address) and the
\* method call that activate makes on the proxy
MethodCall(req) ==
    IF req.shape = "MenuItem"
    THEN [dest |-> req.address, path |-> req.menu_path, member |-> "Event",
          args |-> <<req.submenu_id, "clicked", 0, "now">>]
    ELSE [dest |-> req.address, path |-> ITEM_OBJECT,
          member |-> IF req.shape = "Default" THEN "Activate" ELSE "SecondaryActivate",
          args |-> <<req.x, req.y>>]

\* a faulty timeout_event! that returns the expiry to the caller
timeout_event_strict(reply) ==
    IF reply.kind = "timeout"
    THEN [kind |-> "Err", err |-> "timeout", logged |-> TRUE]
    ELSE [kind |-> "Ok", err |-> "", logged |-> FALSE]

\* timeout_event!($event) and the Ok(()) that ends activate: only the expiry
\* of the timeout is looked at, and it is only logged
timeout_event(reply) ==
    [kind |-> "Ok", err |-> "", logged |-> reply.kind = "timeout"]

(***************************************************************************)
(* Names on the bus and parse_service                                      *)
(* (src/src/dbus/status_notifier_watcher.rs).                              *)
(***************************************************************************)
\* a well-known name that the peer :1.1 owns while it is on the bus
WELL_KNOWN == <<"org.example.Item">>
\* a string that is no bus name and no path
NOT_A_NAME == <<"not a bus name">>

IsUniqueName(s) == s \in Dests
IsWellKnownName(s) == s = WELL_KNOWN
\* BusName::try_from: one element made of the characters of a name; a string
\* that holds a "/" is none
IsBusName(s) ==
    /\ \A i \in DOMAIN s : s[i] # "/"
    /\ IsUniqueName(s) \/ IsWellKnownName(s)

NoOwner == <<>>
\* GetNameOwner
get_name_owner(name) ==
    IF name = WELL_KNOWN /\ alive[<<":1.1">>] THEN <<":1.1">>
    ELSE IF IsUniqueName(name) /\ alive[name] THEN name
    ELSE NoOwner

ParseOk(service, objpath) ==
    [ok |-> TRUE, service |-> service, objpath |-> objpath, err |-> ""]
ParseErr(err) == [ok |-> FALSE, service |-> <<>>, objpath |-> NoPath, err |-> err]

\* a faulty parse that takes any string for the name of its sender
parse_service_lenient(service, sender) ==
    IF service # <<>> /\ service[1] = "/" THEN ParseOk(sender, service)
    ELSE IF IsUniqueName(service) THEN ParseOk(service, ITEM_OBJECT)
    ELSE ParseOk(sender, ITEM_OBJECT)

\* parse_service(service, hdr, con) for a message whose header names its sender
parse_service(service, sender) ==
    IF service # <<>> /\ service[1] = "/" THEN ParseOk(sender, service)
    ELSE IF ~IsBusName(service) THEN ParseErr("InvalidArgs")
    ELSE IF IsUniqueName(service) THEN ParseOk(service, ITEM_OBJECT)
    ELSE IF get_name_owner(service) = NoOwner THEN ParseErr("NameHasNoOwner")
    ELSE ParseOk(get_name_owner(service), ITEM_OBJECT)

(***************************************************************************)
(* The state of a StatusNotifierWatcher: hosts and items are its two sets, *)
(* tasks the bag of the tasks in its JoinSet, emitted the bag of the       *)
(* signals it has emitted.                                                 *)
(***************************************************************************)
Signals ==
    [name : {"StatusNotifierItemRegistered", "StatusNotifierItemUnregistered"},
     arg : {ItemKey(d, p) : d \in Dests, p \in Paths}]
    \cup [name : {"StatusNotifierHostRegistered", "StatusNotifierHostUnregistered"},
          arg : {<<>>}]
    \cup [name : {"PropertiesChanged"},
          arg : {<<"IsStatusNotifierHostRegistered">>, <<"RegisteredStatusNotifierItems">>}]

Sig(name, arg) == [name |-> name, arg |-> arg]
HostsChanged == Sig("PropertiesChanged", <<"IsStatusNotifierHostRegistered">>)
ItemsChanged == Sig("PropertiesChanged", <<"RegisteredStatusNotifierItems">>)

NewWatcher ==
    [hosts |-> {}, items |-> {}, tasks |-> EmptyBag, emitted |-> EmptyBag,
     calls |-> 0, last |-> "none"]

\* every signal of the set sigs is emitted once
Emit(e, sigs) == e (+) SetToBag(sigs)

\* the task spawned for an entry: wait_for_service_exit and what follows it
NewWait(kind, entry, service) ==
    [kind |-> kind, entry |-> entry, service |-> service, pc |-> "spawned", sig |-> FALSE]

\* the IsStatusNotifierHostRegistered property
is_status_notifier_host_registered(w) == w.hosts # {}

(***************************************************************************)
(* StatusNotifierWatcher::attach_to and Client::new.                       *)
(***************************************************************************)
WATCHER_OBJECT == <<"/", "StatusNotifierWatcher">>

\* what object_server().at(WATCHER_OBJECT, self) can give: Ok(true), Ok(false)
\* when the path is served already, or an error
AtReplies(exists) == (IF exists THEN {"false"} ELSE {"true"}) \cup {"error"}

\* what request_name_with_flags can give for WATCHER_BUS, asked without flags
WatcherNameReplies(owner) ==
    (IF owner = "none" THEN {"PrimaryOwner"} ELSE {"InQueue", "Exists", "NameTaken"})
    \cup {"error"}

\* what it can give for the name of the host, asked with DoNotQueue
HostNameReplies == {"PrimaryOwner", "Exists", "AlreadyOwner", "NameTaken", "error"}

\* the replies of request_name_with_flags that are Ok(_)
OkReplies == {"PrimaryOwner", "InQueue", "Exists", "AlreadyOwner"}

Pending == [kind |-> "pending", err |-> ""]
OkResult == [kind |-> "Ok", err |-> ""]
ErrResult(err) == [kind |-> "Err", err |-> err]

\* a faulty attachment that gives up when the name has an owner
attach_to_exclusive(at, reply) ==
    IF at = "error" THEN ErrResult("object_server")
    ELSE IF at = "false" THEN ErrResult("Failure")
    ELSE IF reply = "PrimaryOwner" THEN OkResult
    ELSE ErrResult(reply)

\* attach_to, given what at() and request_name_with_flags gave
attach_to(at, reply) ==
    IF at = "error" THEN ErrResult("object_server")
    ELSE IF at = "false" THEN ErrResult("Failure")
    ELSE IF reply \in OkReplies \cup {"NameTaken"} THEN OkResult
    ELSE ErrResult(reply)

\* no call has been made; the name of the watcher has no owner
NewCtor ==
    [entry |-> "none", pc |-> "idle", exists |-> FALSE, owner |-> "none",
     at |-> "", reply |-> "", i |-> 0, attach |-> Pending, result |-> Pending,
     failed |-> ""]

\* no function has been applied
NoConv == [f |-> "none"]

Keys == {ItemKey(d, p) : d \in Dests, p \in Paths}
Exported == UNION {{ItemKey(d, p) : p \in PathsOf(d)} : d \in Dests}

\* every part but the function that is looked at on its own
\* no task has been started and every mutex is free
NoLocks == [side |-> "none", pc |-> <<>>, holder |-> <<>>]

InitExceptConv ==
    /\ alive = [d \in Dests |-> TRUE]
    /\ watcherItems \in {k \in SUBSET Exported : Cardinality(k) <= 1}
    /\ regQueue = <<>>
    /\ acqQueue = <<>>
    /\ items = EmptyStore
    /\ log = [d \in Dests |-> <<>>]
    /\ stream = [pc |-> "wait", address |-> <<>>, last |-> None]
    /\ initial = [pc |-> "fetch", left |-> {}, address |-> <<>>, last |-> None]
    /\ trackers = <<>>
    /\ menus = <<>>
    /\ used = [events |-> 0, primary |-> FALSE]
    /\ consumer = [pc |-> "new", pos |-> [d \in Dests |-> 0], snap |-> {}]
    /\ chan = NewChannel
    /\ call = [shape \in {} |-> NoCall]
    /\ watcher = NewWatcher
    /\ ctor = NewCtor
    /\ locks = NoLocks
    /\ peer = [d \in Dests |-> "layout-1"]

Init == InitExceptConv /\ conv = NoConv

(***************************************************************************)
(* Client::handle_item, from the GetAll reply to its return.               *)
(***************************************************************************)
NewTracker(d, p) == [dest |-> d, path |-> p, pc |-> "init", sigs |-> <<>>, disc |-> FALSE]
NewMenu(d, m) == [dest |-> d, path |-> m, pc |-> "init", layout |-> 0, props |-> 0]

\* the part of handle_item that runs when the properties were fetched
\* a faulty success path that starts the menu tracker without announcing it
RegisterFetchedUnannounced(d, p, item) ==
    /\ HasRoom(d, 1)
    /\ items' = InsertItem(items, d, item)
    /\ trackers' = Append(trackers, NewTracker(d, p))
    /\ log' = Send(log, d, Ev("Add", item))
    /\ menus' = IF item.menu = NoPath THEN menus ELSE Append(menus, NewMenu(d, item.menu))

RegisterFetched(d, p, item) ==
    /\ HasRoom(d, IF item.menu = NoPath THEN 1 ELSE 2)
    /\ items' = InsertItem(items, d, item)
    /\ trackers' = Append(trackers, NewTracker(d, p))
    /\ IF item.menu = NoPath
       THEN /\ log' = Send(log, d, Ev("Add", item))
            /\ menus' = menus
       ELSE /\ log' = Send(Send(log, d, Ev("Add", item)), d, Ev("MenuConnect", item.menu))
            /\ menus' = Append(menus, NewMenu(d, item.menu))

\* a faulty error path that announces the item it could not decode
RegisterPartial(d, p) ==
    /\ HasRoom(d, 1)
    /\ log' = Send(log, d, Ev("Add", NoItem))
    /\ UNCHANGED <<items, trackers, menus>>

\* the part of handle_item that runs when get_item_properties returned Err
RegisterFailed(d, p) ==
    UNCHANGED <<items, log, trackers, menus>>

handle_item(address, fetched) ==
    LET dp == parse_address(address) IN
    IF fetched.ok
    THEN RegisterFetched(dp[1], dp[2], fetched.item)
    ELSE RegisterFailed(dp[1], dp[2])

(***************************************************************************)
(* The task consuming the ItemRegistered stream.                           *)
(***************************************************************************)
StreamNext ==
    /\ stream.pc = "wait"
    /\ regQueue # <<>>
    /\ stream' = [stream EXCEPT !.pc = "getall", !.address = Head(regQueue)]
    /\ regQueue' = Tail(regQueue)
    /\ UNCHANGED <<alive, watcherItems, acqQueue, items, log, initial, trackers, menus,
                   used, consumer>>
    /\ UNCHANGED otherVars

\* what the stream task does when handle_item returned: Err is logged and
\* breaks the loop; `last` is the Result returned
StreamAfter(ok) ==
    IF ok
    THEN [pc |-> "wait", address |-> <<>>, last |-> "Ok"]
    ELSE [pc |-> "dead", address |-> <<>>, last |-> "Err"]

StreamHandleItemBody ==
    /\ stream.pc = "getall"
    /\ \E reply \in GetAllReplies(parse_address(stream.address)[1]) :
          LET fetched == get_item_properties(reply) IN
          /\ handle_item(stream.address, fetched)
          /\ stream' = StreamAfter(fetched.ok)
          \* the stream is dropped with the task
          /\ regQueue' = IF fetched.ok THEN regQueue ELSE <<>>
    /\ UNCHANGED <<alive, watcherItems, acqQueue, initial, used>>
    /\ UNCHANGED otherVars

StreamHandleItem == StreamHandleItemBody /\ UNCHANGED consumer

(***************************************************************************)
(* The task handling the items registered at startup.                      *)
(***************************************************************************)
\* the loop head of `for item in initial_items`; `last` is the Result the
\* previous handle_item returned
InitialPick(left, last) ==
    IF left = {}
    THEN {[pc |-> "done", left |-> {}, address |-> <<>>, last |-> last]}
    ELSE {[pc |-> "getall", left |-> left \ {a}, address |-> a, last |-> last] : a \in left}

InitialFetch ==
    /\ initial.pc = "fetch"
    /\ initial' \in InitialPick(watcherItems, None)
    /\ UNCHANGED <<alive, watcherItems, regQueue, acqQueue, items, log, stream, trackers,
                   menus, used, consumer>>
    /\ UNCHANGED otherVars

InitialHandleItemBody ==
    /\ initial.pc = "getall"
    /\ \E reply \in GetAllReplies(parse_address(initial.address)[1]) :
          LET fetched == get_item_properties(reply) IN
          /\ handle_item(initial.address, fetched)
          /\ initial' \in InitialPick(initial.left, IF fetched.ok THEN "Ok" ELSE "Err")
    /\ UNCHANGED <<alive, watcherItems, regQueue, acqQueue, stream, used>>
    /\ UNCHANGED otherVars

InitialHandleItem == InitialHandleItemBody /\ UNCHANGED consumer

(***************************************************************************)
(* Client::watch_item_properties, one task per handle_item that succeeded. *)
(***************************************************************************)
Update(s, i, r) == [s EXCEPT ![i] = r]

\* the proxies are built and the two signal streams are subscribed
TrackerSubscribe(i) ==
    /\ trackers[i].pc = "init"
    /\ trackers' = Update(trackers, i, [trackers[i] EXCEPT !.pc = "loop"])
    /\ UNCHANGED <<alive, watcherItems, regQueue, acqQueue, items, log, stream, initial,
                   menus, used, consumer>>
    /\ UNCHANGED otherVars

\* building a proxy or subscribing fails: the task returns the error
TrackerInitFail(i) ==
    /\ trackers[i].pc = "init"
    /\ ~alive[trackers[i].dest]
    /\ trackers' = RemoveAt(trackers, i)
    /\ UNCHANGED <<alive, watcherItems, regQueue, acqQueue, items, log, stream, initial,
                   menus, used, consumer>>
    /\ UNCHANGED otherVars

\* a faulty branch that takes every pending signal in one iteration
PropChangeDrain(i, reply) ==
    LET t == trackers[i]
        got == get_update_event(Head(t.sigs), reply) IN
    /\ trackers' = Update(trackers, i, [t EXCEPT !.sigs = <<>>])
    /\ IF got.ok /\ got.some
       THEN /\ HasRoom(t.dest, Len(t.sigs))
            /\ log' = [log EXCEPT ![t.dest] = @ \o [n \in 1..Len(t.sigs) |-> got.event]]
       ELSE log' = log
    /\ items' = items

\* the select! branch of props_changed: one signal, the Get it causes, one event
PropChange(i, reply) ==
    LET t == trackers[i]
        got == get_update_event(Head(t.sigs), reply) IN
    /\ trackers' = Update(trackers, i, [t EXCEPT !.sigs = Tail(t.sigs)])
    /\ IF got.ok /\ got.some
       THEN /\ HasRoom(t.dest, 1)
            /\ log' = Send(log, t.dest, got.event)
       ELSE log' = log
    /\ items' = items

TrackerPropChange(i) ==
    /\ trackers[i].pc = "loop"
    /\ trackers[i].sigs # <<>>
    /\ \E reply \in {"error"} \cup StatusValues : PropChange(i, reply)
    /\ UNCHANGED <<alive, watcherItems, regQueue, acqQueue, stream, initial, menus, used,
                   consumer>>
    /\ UNCHANGED otherVars

\* UnregisterStatusNotifierItem(service) as the watcher executes it, for a unique name
unregister_status_notifier_item(w, service) == w \ {ItemKey(service, ITEM_OBJECT)}

\* the select! branch of disconnect_stream, up to the Unregister call; the
\* branch stays enabled when props_changed has ended ("half")
TrackerDisconnect(i) ==
    /\ trackers[i].pc \in {"loop", "half"}
    /\ trackers[i].disc
    /\ trackers' = Update(trackers, i, [trackers[i] EXCEPT !.pc = "unreg", !.disc = FALSE])
    /\ watcherItems' = unregister_status_notifier_item(watcherItems, trackers[i].dest)
    /\ UNCHANGED <<alive, regQueue, acqQueue, items, log, stream, initial, menus, used,
                   consumer>>
    /\ UNCHANGED otherVars

\* after the Unregister call: remove from the store, broadcast Remove, leave the loop
TrackerRemove(i) ==
    /\ trackers[i].pc = "unreg"
    /\ HasRoom(trackers[i].dest, 1)
    /\ items' = RemoveItem(items, trackers[i].dest)
    /\ log' = Send(log, trackers[i].dest, Ev("Remove", None))
    /\ trackers' = RemoveAt(trackers, i)
    /\ UNCHANGED <<alive, watcherItems, regQueue, acqQueue, stream, initial, menus, used,
                   consumer>>
    /\ UNCHANGED otherVars

(***************************************************************************)
(* Client::watch_menu, one task per item that has a menu.                  *)
(***************************************************************************)
LayoutReplies == {"layout-2", "error", "timeout", "invalid"}

\* the first GetLayout: cache the menu and broadcast it, or return the error
MenuInit(j) ==
    /\ menus[j].pc = "init"
    /\ \E reply \in {"layout-1", "error", "invalid"} :
          IF reply \in Layouts
          THEN /\ HasRoom(menus[j].dest, 1)
               /\ items' = ReplaceMenu(items, menus[j].dest, reply)
               /\ log' = Send(log, menus[j].dest, Ev("Menu", reply))
               /\ menus' = Update(menus, j, [menus[j] EXCEPT !.pc = "sub"])
          ELSE /\ menus' = RemoveAt(menus, j)
               /\ UNCHANGED <<items, log>>
    /\ UNCHANGED <<alive, watcherItems, regQueue, acqQueue, stream, initial, trackers, used,
                   consumer>>
    /\ UNCHANGED otherVars

\* receive_layout_updated and receive_items_properties_updated
MenuSubscribe(j) ==
    /\ menus[j].pc = "sub"
    /\ menus' = Update(menus, j, [menus[j] EXCEPT !.pc = "loop"])
    /\ UNCHANGED <<alive, watcherItems, regQueue, acqQueue, items, log, stream, initial,
                   trackers, used, consumer>>
    /\ UNCHANGED otherVars

\* a faulty refresh that drops the item when GetLayout fails
LayoutRefreshDropsItem(j, reply) ==
    IF reply \in Layouts
    THEN /\ HasRoom(menus[j].dest, 1)
         /\ items' = ReplaceMenu(items, menus[j].dest, reply)
         /\ log' = Send(log, menus[j].dest, Ev("Menu", reply))
         /\ menus' = Update(menus, j, [menus[j] EXCEPT !.layout = @ - 1])
    ELSE /\ menus' = Update(menus, j, [menus[j] EXCEPT !.pc = "stopped", !.layout = 0,
                                                       !.props = 0])
         /\ items' = RemoveItem(items, menus[j].dest)
         /\ log' = Send(log, menus[j].dest, Ev("Remove", None))

\* the select! branch of layout_updated with the reply to its GetLayout:
\* an error or a timeout breaks the loop (the task returns Ok and is kept here
\* as "stopped"), a layout that does not decode returns the error
LayoutRefresh(j, reply) ==
    IF reply \in Layouts
    THEN /\ HasRoom(menus[j].dest, 1)
         /\ items' = ReplaceMenu(items, menus[j].dest, reply)
         /\ log' = Send(log, menus[j].dest, Ev("Menu", reply))
         /\ menus' = Update(menus, j, [menus[j] EXCEPT !.layout = @ - 1])
    ELSE IF reply \in {"error", "timeout"}
    THEN /\ menus' = Update(menus, j, [menus[j] EXCEPT !.pc = "stopped", !.layout = 0,
                                                       !.props = 0])
         /\ UNCHANGED <<items, log>>
    ELSE /\ menus' = RemoveAt(menus, j)
         /\ UNCHANGED <<items, log>>

MenuLayoutUpdated(j) ==
    /\ menus[j].pc = "loop"
    /\ menus[j].layout > 0
    /\ \E reply \in LayoutReplies \cup {"timeout"} : LayoutRefresh(j, reply)
    /\ UNCHANGED <<alive, watcherItems, regQueue, acqQueue, stream, initial, trackers, used,
                   consumer>>
    /\ UNCHANGED otherVars

\* the select! branch of properties_updated
MenuPropertiesUpdated(j) ==
    /\ menus[j].pc = "loop"
    /\ menus[j].props > 0
    /\ \E decoded \in BOOLEAN :
          IF decoded
          THEN /\ HasRoom(menus[j].dest, 1)
               /\ log' = Send(log, menus[j].dest, Ev("MenuDiff", None))
               /\ menus' = Update(menus, j, [menus[j] EXCEPT !.props = @ - 1])
          ELSE /\ menus' = RemoveAt(menus, j)
               /\ log' = log
    /\ UNCHANGED <<alive, watcherItems, regQueue, acqQueue, items, stream, initial, trackers,
                   used, consumer>>
    /\ UNCHANGED otherVars

(***************************************************************************)
(* The task consuming NameAcquired.                                        *)
(***************************************************************************)
RECURSIVE SendRemoves(_, _)
SendRemoves(l, keys) ==
    IF keys = {} THEN l
    ELSE LET d == CHOOSE x \in keys : TRUE IN
         SendRemoves(Send(l, d, Ev("Remove", None)), keys \ {d})

\* a faulty loop body that does not look at the name that was acquired
name_acquired_any(name) ==
    /\ \A d \in DOMAIN items : HasRoom(d, 1)
    /\ items' = EmptyStore
    /\ log' = SendRemoves(log, DOMAIN items)

\* the body of the while loop for one signal
name_acquired(name) ==
    IF name = WATCHER_BUS
    THEN /\ \A d \in DOMAIN items : HasRoom(d, 1)
         /\ items' = EmptyStore
         /\ log' = SendRemoves(log, DOMAIN items)
    ELSE UNCHANGED <<items, log>>

NameAcquiredNext ==
    /\ acqQueue # <<>>
    /\ name_acquired(Head(acqQueue))
    /\ acqQueue' = Tail(acqQueue)
    /\ UNCHANGED <<alive, watcherItems, regQueue, stream, initial, trackers, menus, used,
                   consumer>>
    /\ UNCHANGED otherVars

(***************************************************************************)
(* The watcher (src/src/dbus/status_notifier_watcher.rs) and the peers.    *)
(***************************************************************************)
\* a peer calls RegisterStatusNotifierItem(service)
register_status_notifier_item(sender, service) ==
    LET sp == parse_service(service, sender)
        item == ItemKey(sp.service, sp.objpath) IN
    IF item \in watcherItems
    THEN UNCHANGED <<watcherItems, regQueue>>
    ELSE /\ watcherItems' = watcherItems \cup {item}
         \* StatusNotifierItemRegistered reaches the client's stream, if it is kept
         /\ regQueue' = IF stream.pc = "dead" THEN regQueue ELSE Append(regQueue, item)

RegisterItem ==
    /\ used.events < MaxBusEvents
    /\ \E sender \in Dests, service \in Dests \cup Paths :
          /\ alive[sender]
          /\ service \in Dests => service = sender
          /\ service \in Paths => service \in PathsOf(sender)
          /\ register_status_notifier_item(sender, service)
    /\ used' = [used EXCEPT !.events = @ + 1]
    /\ UNCHANGED <<alive, acqQueue, items, log, stream, initial, trackers, menus, consumer>>
    /\ UNCHANGED otherVars

\* the watcher's task that waits for the item's service to exit
WatcherItemGone ==
    /\ \E item \in watcherItems :
          /\ ~alive[parse_address(item)[1]]
          /\ watcherItems' = watcherItems \ {item}
    /\ UNCHANGED <<alive, regQueue, acqQueue, items, log, stream, initial, trackers, menus,
                   used, consumer>>
    /\ UNCHANGED otherVars

\* a peer leaves the bus: NameOwnerChanged(d, Some(d), None) reaches every
\* subscribed stream; a tracker acts on it only if it is about its destination
PeerExit ==
    /\ used.events < MaxBusEvents
    /\ used' = [used EXCEPT !.events = @ + 1]
    /\ \E d \in Dests :
          /\ alive[d]
          /\ alive' = [alive EXCEPT ![d] = FALSE]
          /\ trackers' = [i \in DOMAIN trackers |->
                            IF trackers[i].dest = d /\ trackers[i].pc \in {"loop", "half"}
                            THEN [trackers[i] EXCEPT !.disc = TRUE]
                            ELSE trackers[i]]
    /\ UNCHANGED <<watcherItems, regQueue, acqQueue, items, log, stream, initial, menus,
                   consumer>>
    /\ UNCHANGED otherVars

\* a peer emits a New<X> signal from one of its item objects
PeerSignal ==
    /\ used.events < MaxBusEvents
    /\ \E i \in DOMAIN trackers, member \in Members :
          LET d == trackers[i].dest
              p == trackers[i].path IN
          /\ alive[d]
          /\ trackers' = [k \in DOMAIN trackers |->
                            IF /\ trackers[k].dest = d
                               /\ trackers[k].path = p
                               /\ trackers[k].pc = "loop"
                            THEN [trackers[k] EXCEPT !.sigs = Append(@, member)]
                            ELSE trackers[k]]
    /\ used' = [used EXCEPT !.events = @ + 1]
    /\ UNCHANGED <<alive, watcherItems, regQueue, acqQueue, items, log, stream, initial,
                   menus, consumer>>
    /\ UNCHANGED otherVars

\* a peer emits LayoutUpdated or ItemsPropertiesUpdated from its menu object
PeerMenuSignal ==
    /\ used.events < MaxBusEvents
    /\ \E j \in DOMAIN menus, layout \in BOOLEAN :
          LET d == menus[j].dest IN
          /\ alive[d]
          /\ menus' = [k \in DOMAIN menus |->
                         IF menus[k].dest = d /\ menus[k].pc = "loop"
                         THEN IF layout
                              THEN [menus[k] EXCEPT !.layout = @ + 1]
                              ELSE [menus[k] EXCEPT !.props = @ + 1]
                         ELSE menus[k]]
    /\ used' = [used EXCEPT !.events = @ + 1]
    /\ UNCHANGED <<alive, watcherItems, regQueue, acqQueue, items, log, stream, initial,
                   trackers, consumer>>
    /\ UNCHANGED otherVars

\* the watcher that owned WATCHER_BUS is gone and this connection, queued for
\* the name by attach_to, now owns it: its own watcher, which knows no item, serves
WatcherReplaced ==
    /\ used.events < MaxBusEvents
    /\ ~used.primary
    /\ acqQueue' = Append(acqQueue, WATCHER_BUS)
    /\ watcherItems' = {}
    /\ used' = [used EXCEPT !.events = @ + 1, !.primary = TRUE]
    /\ UNCHANGED <<alive, regQueue, items, log, stream, initial, trackers, menus, consumer>>
    /\ UNCHANGED otherVars

\* the connection acquires another name
OtherNameAcquired ==
    /\ used.events < MaxBusEvents
    /\ acqQueue' = Append(acqQueue, HOST_NAME)
    /\ used' = [used EXCEPT !.events = @ + 1]
    /\ UNCHANGED <<alive, watcherItems, regQueue, items, log, stream, initial, trackers,
                   menus, consumer>>
    /\ UNCHANGED otherVars

(***************************************************************************)
(* The specification.                                                      *)
(***************************************************************************)
ClientStep ==
    \/ StreamNext
    \/ StreamHandleItem
    \/ InitialFetch
    \/ InitialHandleItem
    \/ NameAcquiredNext
    \/ \E i \in DOMAIN trackers : TrackerSubscribe(i)
    \/ \E i \in DOMAIN trackers : TrackerInitFail(i)
    \/ \E i \in DOMAIN trackers : TrackerPropChange(i)
    \/ \E i \in DOMAIN trackers : TrackerDisconnect(i)
    \/ \E i \in DOMAIN trackers : TrackerRemove(i)
    \/ \E j \in DOMAIN menus : MenuInit(j)
    \/ \E j \in DOMAIN menus : MenuSubscribe(j)
    \/ \E j \in DOMAIN menus : MenuLayoutUpdated(j)
    \/ \E j \in DOMAIN menus : MenuPropertiesUpdated(j)

BusStep ==
    \/ RegisterItem
    \/ WatcherItemGone
    \/ PeerExit
    \/ PeerSignal
    \/ PeerMenuSignal
    \/ WatcherReplaced
    \/ OtherNameAcquired

Next == ClientStep \/ BusStep

Spec == Init /\ [][Next]_vars

(***************************************************************************)
(* A consumer (src/examples/basic.rs): subscribe(), then a read of the     *)
(* store handle that items() returns.                                      *)
(***************************************************************************)
\* Client::subscribe: the receiver sees the events sent from now on
Subscribe ==
    /\ consumer.pc = "new"
    /\ consumer' = [consumer EXCEPT !.pc = "subscribed",
                                    !.pos = [d \in Dests |-> Len(log[d])]]
    /\ UNCHANGED <<alive, watcherItems, regQueue, acqQueue, items, log, stream, initial,
                   trackers, menus, used>>
    /\ UNCHANGED otherVars

\* Client::items and a lock of the map: the addresses known at that moment
ReadItems ==
    /\ consumer.pc = "subscribed"
    /\ consumer' = [consumer EXCEPT !.pc = "read", !.snap = DOMAIN items]
    /\ UNCHANGED <<alive, watcherItems, regQueue, acqQueue, items, log, stream, initial,
                   trackers, menus, used>>
    /\ UNCHANGED otherVars

\* the consumer, on a thread of its own, locks the map after handle_item has
\* released it and before handle_item sends Add: it finds the new item in the
\* map and receives its Add afterwards
ReadItemsDuringHandleItem ==
    /\ consumer.pc = "subscribed"
    /\ StreamHandleItemBody \/ InitialHandleItemBody
    /\ consumer' = [consumer EXCEPT !.pc = "read", !.snap = DOMAIN items']

ConsumerNext == Next \/ Subscribe \/ ReadItems \/ ReadItemsDuringHandleItem

SpecConsumer == Init /\ [][ConsumerNext]_vars

(***************************************************************************)
(* Vocabulary of the claims.                                               *)
(***************************************************************************)
Pos(d) == 1..Len(log[d])
IsAdd(d, i) == log[d][i].t = "Add"
IsRemove(d, i) == log[d][i].t = "Remove"
IsUpdate(d, i) == log[d][i].t \notin {"Add", "Remove"}
LastIs(d, t) == log[d] # <<>> /\ log[d][Len(log[d])].t = t

\* the events appended to log[d] by the step
Sent(d) == SubSeq(log'[d], Len(log[d]) + 1, Len(log'[d]))

\* every task of the client waits for a signal and none is pending
Idle ==
    /\ stream.pc = "dead" \/ (stream.pc = "wait" /\ regQueue = <<>>)
    /\ initial.pc = "done"
    /\ acqQueue = <<>>
    /\ \A i \in DOMAIN trackers :
          trackers[i].pc = "loop" /\ trackers[i].sigs = <<>> /\ ~trackers[i].disc
    /\ \A j \in DOMAIN menus :
          \/ menus[j].pc = "stopped"
          \/ menus[j].pc = "loop" /\ menus[j].layout = 0 /\ menus[j].props = 0

(***************************************************************************)
(* C1: for every address, Add is the first event broadcast and no second   *)
(* Add is broadcast unless a Remove came in between.                       *)
(***************************************************************************)
C1_AddOnceBeforeOthers ==
    \A d \in Dests :
        /\ log[d] # <<>> => IsAdd(d, 1)
        /\ \A i, j \in Pos(d) :
              (i < j /\ IsAdd(d, i) /\ IsAdd(d, j)) =>
                  \E k \in Pos(d) : i < k /\ k < j /\ IsRemove(d, k)

(***************************************************************************)
(* C2: Remove is terminal: the event that follows a Remove(address) is     *)
(* never an Update(address, _).                                            *)
(***************************************************************************)
C2_RemoveIsTerminal ==
    \A d \in Dests : \A i \in Pos(d) :
        (IsRemove(d, i) /\ i < Len(log[d])) => ~IsUpdate(d, i + 1)

(***************************************************************************)
(* C3: between two Remove(address) events there is always an Add(address). *)
(***************************************************************************)
C3_RemoveOncePerInstance ==
    \A d \in Dests : \A i, j \in Pos(d) :
        (i < j /\ IsRemove(d, i) /\ IsRemove(d, j)) =>
            \E k \in Pos(d) : i < k /\ k < j /\ IsAdd(d, k)

(***************************************************************************)
(* C4: when the client has nothing left to do, every address that was      *)
(* added and whose peer has left the bus has Remove as its last event and  *)
(* is not in the store.                                                    *)
(***************************************************************************)
C4_DisconnectObserved ==
    \A d \in Dests :
        (Idle /\ ~alive[d] /\ \E i \in Pos(d) : IsAdd(d, i)) =>
            (LastIs(d, "Remove") /\ d \notin DOMAIN items)

(***************************************************************************)
(* The fold of the events of one address into a store entry                *)
(* (src/src/data.rs: new_item, remove_item, apply_update_event).           *)
(***************************************************************************)
Absent == [present |-> FALSE, item |-> NoItem, menu |-> None]

\* TrayItemMap::apply_update_event on an entry that is present; a MenuDiff
\* of this model carries no diff
apply_update_event(entry, event) ==
    IF event.t = "Status" THEN [entry EXCEPT !.item.status = event.v]
    ELSE IF event.t = "Menu" THEN [entry EXCEPT !.menu = event.v]
    ELSE IF event.t = "MenuConnect" THEN [entry EXCEPT !.item.menu = event.v]
    ELSE entry

ApplyEvent(entry, event) ==
    IF event.t = "Add" THEN [present |-> TRUE, item |-> event.v, menu |-> None]
    ELSE IF event.t = "Remove" THEN Absent
    ELSE IF entry.present THEN apply_update_event(entry, event)
    ELSE entry

RECURSIVE Fold(_, _)
Fold(entry, events) ==
    IF events = <<>> THEN entry
    ELSE Fold(ApplyEvent(entry, Head(events)), Tail(events))

\* what a read of the handle returned by items() finds for address d
Entry(d) ==
    IF d \in DOMAIN items
    THEN [present |-> TRUE, item |-> items[d].item, menu |-> items[d].menu]
    ELSE Absent

(***************************************************************************)
(* C5: the store equals the fold of the broadcast events: every address    *)
(* maps to the item of its Add with every later Update folded in, and an   *)
(* address whose last event is Remove is absent.                           *)
(***************************************************************************)
C5_StoreIsFoldOfEvents ==
    \A d \in Dests : Entry(d) = Fold(Absent, log[d])

(***************************************************************************)
(* C6: a consumer that subscribes and then reads the store misses no       *)
(* item: every address in the store is in what it read or has an Add       *)
(* among the events it receives; and whenever Add(address) is broadcast    *)
(* the store contains address.                                             *)
(***************************************************************************)
C6_NoItemMissed ==
    consumer.pc = "read" =>
        \A d \in DOMAIN items :
            \/ d \in consumer.snap
            \/ \E i \in Pos(d) : i > consumer.pos[d] /\ IsAdd(d, i)

C6_AddIsStored ==
    \A d \in Dests :
        (\E i \in DOMAIN Sent(d) : Sent(d)[i].t = "Add") => d \in DOMAIN items'

HandleItemFailed ==
    \/ stream.pc = "getall" /\ stream' # stream /\ stream'.last = "Err"
    \/ initial.pc = "getall" /\ initial' # initial /\ initial'.last = "Err"

C7_EveryAddHasId ==
    /\ \A d \in Dests : \A i \in Pos(d) : IsAdd(d, i) => log[d][i].v.id # NoProp
    /\ \A d \in DOMAIN items : items[d].item.id # NoProp

C7_NoPartialAdd ==
    /\ []C7_EveryAddHasId
    /\ [][HandleItemFailed => UNCHANGED <<items, log, trackers, menus>>]_vars

\* a handle_item has failed and nothing was added
C7_Witness ==
    /\ initial.last = "Err"
    /\ initial.pc = "done"
    /\ items = EmptyStore
    /\ trackers = <<>>
    /\ \A d \in Dests : log[d] = <<>>

(***************************************************************************)
(* C8: a failed handle_item does not stop the task that consumes           *)
(* ItemRegistered: it keeps taking the signals that follow.                *)
(***************************************************************************)
C8_StreamTaskSurvives == stream.last = "Err" => stream.pc \in {"wait", "getall"}

(***************************************************************************)
(* C9: when the NameAcquired task takes a signal for WATCHER_BUS the store *)
(* becomes empty and exactly one Remove is broadcast for each address that *)
(* was in it; a signal for any other name changes nothing.                 *)
(***************************************************************************)
NameAcquiredTaken == Len(acqQueue') < Len(acqQueue)

C9_WatcherReplacement ==
    [][NameAcquiredTaken =>
          IF Head(acqQueue) = WATCHER_BUS
          THEN /\ items' = EmptyStore
               /\ \A d \in Dests :
                     Sent(d) = IF d \in DOMAIN items
                               THEN <<Ev("Remove", None)>>
                               ELSE <<>>
          ELSE UNCHANGED <<items, log>>]_vars

\* both addresses were in the store when the watcher was replaced
C9_Witness ==
    /\ used.primary
    /\ acqQueue = <<>>
    /\ items = EmptyStore
    /\ \A d \in Dests : alive[d] /\ LastIs(d, "Remove")

(***************************************************************************)
(* C10: when a layout refresh fails or times out the menu tracker stops    *)
(* and broadcasts nothing, the store keeps the item with its cached menu,  *)
(* and the item trackers are left running.                                 *)
(***************************************************************************)
RefreshFailed ==
    \E j \in DOMAIN menus :
        /\ menus[j].pc = "loop"
        /\ j \in DOMAIN menus'
        /\ menus'[j].pc = "stopped"

C11_ConnectBeforeMenu ==
    \A d \in Dests : \A i \in Pos(d) :
        log[d][i].t = "Menu" =>
            \E k \in 1..(i - 1) :
                /\ log[d][k].t = "MenuConnect"
                /\ \E a \in 1..(k - 1) : IsAdd(d, a)

C11_AddThenConnect ==
    \A d \in Dests : \A i \in DOMAIN Sent(d) :
        (Sent(d)[i].t = "Add" /\ Sent(d)[i].v.menu # NoPath) =>
            /\ i < Len(Sent(d))
            /\ Sent(d)[i + 1] = Ev("MenuConnect", Sent(d)[i].v.menu)

C11_MenuConnectOrder == []C11_ConnectBeforeMenu /\ [][C11_AddThenConnect]_vars

\* an item with a menu was added, announced its menu and then sent a layout
C11_Witness ==
    \E d \in Dests :
        /\ Len(log[d]) >= 3
        /\ IsAdd(d, 1)
        /\ log[d][1].v.menu = MENU_PATH
        /\ log[d][2] = Ev("MenuConnect", MENU_PATH)
        /\ log[d][3].t = "Menu"

(***************************************************************************)
(* Dropping the Client.  The struct owns one Sender; every spawned task    *)
(* owns a clone of it until the task returns.  Nothing stops a task when   *)
(* the Client is dropped.                                                  *)
(***************************************************************************)
\* the consumer drops the Client while it holds a receiver
DropClient ==
    /\ consumer.pc = "subscribed"
    /\ consumer' = [consumer EXCEPT !.pc = "dropped"]
    /\ UNCHANGED <<alive, watcherItems, regQueue, acqQueue, items, log, stream, initial,
                   trackers, menus, used>>
    /\ UNCHANGED otherVars

\* the Sender handles that exist: the Client's, and one per task still running
\* (the NameAcquired task never returns)
SenderHandles ==
    (IF consumer.pc = "dropped" THEN 0 ELSE 1)
    + (IF stream.pc = "dead" THEN 0 ELSE 1)
    + (IF initial.pc = "done" THEN 0 ELSE 1)
    + 1
    + Len(trackers)
    + Cardinality({j \in DOMAIN menus : menus[j].pc # "stopped"})

\* Receiver::recv reports Closed once no Sender is left
ReceiverClosed == SenderHandles = 0

DropNext == Next \/ Subscribe \/ DropClient

SpecDrop == Init /\ [][DropNext]_vars

(***************************************************************************)
(* C12: once the Client is dropped every receiver gets closed: when the    *)
(* Client is dropped and every task has nothing left to do, the receiver   *)
(* reports closed.                                                         *)
(***************************************************************************)
C12_DropClosesReceivers ==
    (consumer.pc = "dropped" /\ Idle) => ReceiverClosed

(***************************************************************************)
(* The channel on its own: a task sends, a consumer subscribes and         *)
(* receives at its own pace.                                               *)
(***************************************************************************)
ChanSend ==
    /\ chan.sent < MaxSent
    /\ chan' = send(chan)
    /\ UNCHANGED exceptChan

ChanSubscribe ==
    /\ chan.next = 0
    /\ chan' = subscribe(chan)
    /\ UNCHANGED exceptChan

ChanRecv ==
    /\ chan.next > 0
    /\ chan.next <= chan.sent
    /\ chan' = recv(chan)
    /\ UNCHANGED exceptChan

ChanNext == ChanSend \/ ChanSubscribe \/ ChanRecv

SpecChannel == Init /\ [][ChanNext]_vars

(***************************************************************************)
(* C13: the channel is bounded at 32 and lossy.  A send is possible        *)
(* whatever the receiver has read; a recv of a receiver that is more than  *)
(* 32 values behind reports the number of values lost, which are the       *)
(* oldest ones, and the receiver goes on with the oldest value kept; any   *)
(* other recv returns the value that follows the one returned before.      *)
(***************************************************************************)
Behind == chan.sent - chan.next + 1

C13_SendNeverBlocks == chan.sent < MaxSent => ENABLED ChanSend

C13_RecvStep ==
    (chan.next > 0 /\ chan'.next # chan.next) =>
        IF Behind > CAPACITY
        THEN /\ chan'.last = [kind |-> "lagged", v |-> Behind - CAPACITY]
             /\ chan'.next = chan.sent - CAPACITY + 1
        ELSE /\ chan'.last = [kind |-> "value", v |-> chan.next]
             /\ chan'.next = chan.next + 1

\* what was sent since the subscription is received, lost with notice, or
\* still in the buffer
C13_NothingLostSilently ==
    chan.next > 0 => chan.got + chan.lost + Behind = chan.sent - chan.since

ActivateCall(shape) ==
    /\ shape \notin DOMAIN call
    /\ \E req \in Requests(shape) :
          call' = [x \in DOMAIN call \cup {shape} |->
                     IF x = shape THEN [NoCall EXCEPT !.pc = "proxy", !.req = req]
                     ELSE call[x]]
    /\ UNCHANGED exceptCall

\* the proxy is built, or `?` returns its error
ActivateProxy(shape) ==
    /\ shape \in DOMAIN call
    /\ call[shape].pc = "proxy"
    /\ \E built \in ProxyResults :
          LET c == call[shape] IN
          call' = [call EXCEPT ![shape] =
                     IF built = "ok"
                     THEN [c EXCEPT !.pc = "sent", !.sent = MethodCall(c.req)]
                     ELSE [c EXCEPT !.pc = "done",
                                    !.result = [kind |-> "Err", err |-> built,
                                                logged |-> FALSE]]]
    /\ UNCHANGED exceptCall

\* the peer replies, or the second is over
ActivateReply(shape) ==
    /\ shape \in DOMAIN call
    /\ call[shape].pc = "sent"
    /\ \E reply \in Replies :
          call' = [call EXCEPT ![shape] =
                     [call[shape] EXCEPT !.pc = "done", !.reply = reply,
                                         !.result = timeout_event(reply)]]
    /\ UNCHANGED exceptCall

ActivateNext ==
    \E shape \in Shapes :
        ActivateCall(shape) \/ ActivateProxy(shape) \/ ActivateReply(shape)

SpecActivate == Init /\ [][ActivateNext]_vars

C15_ErrorsAreReturned ==
    \A shape \in DOMAIN call :
        call[shape].pc = "done" =>
            /\ call[shape].sent = NoMethodCall => call[shape].result.kind = "Err"
            /\ call[shape].reply.kind = "error" =>
                  /\ call[shape].result.kind = "Err"
                  /\ call[shape].result.err = call[shape].reply.err

(***************************************************************************)
(* The methods of the watcher.  A method runs to its end before the next   *)
(* call is served (it takes &mut self); the signals it emits are counted   *)
(* with the change that causes them.                                       *)
(***************************************************************************)
\* the strings peers pass as `service`
ServiceArgs ==
    Paths \cup Dests \cup {WELL_KNOWN, NOT_A_NAME, ItemKey(<<":1.1">>, ITEM_OBJECT)}

\* a faulty registration that notifies of the property for every new host
RegisterHostNotifyingAlways(w, sender, service) ==
    LET sp == parse_service(service, sender) IN
    IF ~sp.ok THEN [w EXCEPT !.last = sp.err]
    ELSE IF sp.service \in w.hosts THEN [w EXCEPT !.last = "Ok"]
    ELSE [w EXCEPT !.hosts = @ \cup {sp.service},
                   !.emitted = Emit(@, {HostsChanged,
                                        Sig("StatusNotifierHostRegistered", <<>>)}),
                   !.tasks = @ (+) SetToBag({NewWait("host", sp.service, sp.service)}),
                   !.last = "Ok"]

RegisterStatusNotifierHost(w, sender, service) ==
    LET sp == parse_service(service, sender) IN
    IF ~sp.ok THEN [w EXCEPT !.last = sp.err]
    ELSE IF sp.service \in w.hosts THEN [w EXCEPT !.last = "Ok"]
    ELSE [w EXCEPT !.hosts = @ \cup {sp.service},
                   !.emitted = Emit(@, (IF w.hosts = {} THEN {HostsChanged} ELSE {})
                                       \cup {Sig("StatusNotifierHostRegistered", <<>>)}),
                   !.tasks = @ (+) SetToBag({NewWait("host", sp.service, sp.service)}),
                   !.last = "Ok"]

\* a faulty registration that announces an item it already tracks
RegisterItemAgain(w, sender, service) ==
    LET sp == parse_service(service, sender)
        item == ItemKey(sp.service, sp.objpath) IN
    IF ~sp.ok THEN [w EXCEPT !.last = sp.err]
    ELSE [w EXCEPT !.items = @ \cup {item},
                   !.emitted = Emit(@, {ItemsChanged,
                                        Sig("StatusNotifierItemRegistered", item)}),
                   !.tasks = @ (+) SetToBag({NewWait("item", item, sp.service)}),
                   !.last = "Ok"]

RegisterStatusNotifierItem(w, sender, service) ==
    LET sp == parse_service(service, sender)
        item == ItemKey(sp.service, sp.objpath) IN
    IF ~sp.ok THEN [w EXCEPT !.last = sp.err]
    ELSE IF item \in w.items THEN [w EXCEPT !.last = "Ok"]
    ELSE [w EXCEPT !.items = @ \cup {item},
                   !.emitted = Emit(@, {ItemsChanged,
                                        Sig("StatusNotifierItemRegistered", item)}),
                   !.tasks = @ (+) SetToBag({NewWait("item", item, sp.service)}),
                   !.last = "Ok"]

UnregisterStatusNotifierItem(w, sender, service) ==
    LET sp == parse_service(service, sender)
        item == ItemKey(sp.service, sp.objpath) IN
    IF ~sp.ok THEN [w EXCEPT !.last = sp.err]
    ELSE [w EXCEPT !.items = @ \ {item},
                   !.emitted = Emit(@, {Sig("StatusNotifierItemUnregistered", item)}),
                   !.last = "Ok"]

\* what the task of an entry does after wait_for_service_exit has returned
EntryGone(w, task) ==
    IF task.kind = "item"
    THEN [w EXCEPT !.items = @ \ {task.entry},
                   !.emitted = Emit(@, {ItemsChanged,
                                        Sig("StatusNotifierItemUnregistered", task.entry)})]
    ELSE [w EXCEPT !.hosts = @ \ {task.entry},
                   !.emitted = Emit(@, (IF w.hosts = {task.entry} THEN {HostsChanged}
                                        ELSE {})
                                       \cup {Sig("StatusNotifierHostUnregistered", <<>>)})]

Served(w) == [w EXCEPT !.calls = @ + 1]

CallRegisterHost ==
    /\ watcher.calls < MaxCalls
    /\ \E sender \in Dests, service \in ServiceArgs :
          /\ alive[sender]
          /\ watcher' = Served(RegisterStatusNotifierHost(watcher, sender, service))
    /\ UNCHANGED <<alive, exceptWatcher>>

CallRegisterItem ==
    /\ watcher.calls < MaxCalls
    /\ \E sender \in Dests, service \in ServiceArgs :
          /\ alive[sender]
          /\ watcher' = Served(RegisterStatusNotifierItem(watcher, sender, service))
    /\ UNCHANGED <<alive, exceptWatcher>>

CallUnregisterItem ==
    /\ watcher.calls < MaxCalls
    /\ \E sender \in Dests, service \in ServiceArgs :
          /\ alive[sender]
          /\ watcher' = Served(UnregisterStatusNotifierItem(watcher, sender, service))
    /\ UNCHANGED <<alive, exceptWatcher>>

(***************************************************************************)
(* wait_for_service_exit, one step per await, and the end of the task.     *)
(***************************************************************************)
\* a task of the bag goes on as `next`
SetTask(task, next) ==
    [watcher EXCEPT !.tasks = (@ (-) SetToBag({task})) (+) SetToBag({next})]

\* receive_name_owner_changed_with_args: from now on the signal is kept
WaitSubscribe(task) ==
    /\ task.pc = "spawned"
    /\ watcher' = SetTask(task, [task EXCEPT !.pc = "subscribed"])
    /\ UNCHANGED <<alive, exceptWatcher>>

\* a faulty wait that does not ask whether the service still has an owner
WaitWithoutProbe(task) ==
    /\ task.pc = "subscribed"
    /\ watcher' = SetTask(task, [task EXCEPT !.pc = "loop"])
    /\ UNCHANGED <<alive, exceptWatcher>>

\* name_has_owner: return at once if the service has gone already
WaitProbe(task) ==
    /\ task.pc = "subscribed"
    /\ watcher' = SetTask(task, [task EXCEPT
                                   !.pc = IF alive[task.service] THEN "loop" ELSE "gone"])
    /\ UNCHANGED <<alive, exceptWatcher>>

\* owner_changes.next() gives a signal without a new owner
WaitSignal(task) ==
    /\ task.pc = "loop"
    /\ task.sig
    /\ watcher' = SetTask(task, [task EXCEPT !.pc = "gone"])
    /\ UNCHANGED <<alive, exceptWatcher>>

\* the entry is removed, the signals are emitted and the task ends
WaitDone(task) ==
    /\ task.pc = "gone"
    /\ watcher' = [EntryGone(watcher, task) EXCEPT
                      !.tasks = watcher.tasks (-) SetToBag({task})]
    /\ UNCHANGED <<alive, exceptWatcher>>

\* NameOwnerChanged(d, d, "") as a task sees it: kept if the task is
\* subscribed for d
Notice(task, d) ==
    IF task.service = d /\ task.pc \in {"subscribed", "loop"}
    THEN [task EXCEPT !.sig = TRUE]
    ELSE task

\* a peer leaves the bus
ServiceExit ==
    /\ \E d \in Dests :
          /\ alive[d]
          /\ alive' = [alive EXCEPT ![d] = FALSE]
          /\ watcher' = [watcher EXCEPT
                            !.tasks = BagOfAll(LAMBDA task : Notice(task, d), @)]
    /\ UNCHANGED exceptWatcher

Tasks == BagToSet(watcher.tasks)

WatcherNext ==
    \/ CallRegisterHost
    \/ CallRegisterItem
    \/ CallUnregisterItem
    \/ \E task \in Tasks : WaitSubscribe(task)
    \/ \E task \in Tasks : WaitProbe(task)
    \/ \E task \in Tasks : WaitSignal(task)
    \/ \E task \in Tasks : WaitDone(task)
    \/ ServiceExit

SpecWatcher == Init /\ [][WatcherNext]_vars

(***************************************************************************)
(* Vocabulary of the claims about the watcher.                             *)
(***************************************************************************)
\* how often the step emits signal g
Emitted(g) == CopiesIn(g, watcher.emitted)
EmittedBy(g) == CopiesIn(g, watcher'.emitted) - CopiesIn(g, watcher.emitted)
ItemRegistered(k) == Sig("StatusNotifierItemRegistered", k)
ItemUnregistered(k) == Sig("StatusNotifierItemUnregistered", k)
HostRegistered == Sig("StatusNotifierHostRegistered", <<>>)
HostUnregistered == Sig("StatusNotifierHostUnregistered", <<>>)
NothingEmitted == watcher'.emitted = watcher.emitted
AllKeys == {ItemKey(d, p) : d \in Dests, p \in Paths}

(***************************************************************************)
(* C16: RegisterStatusNotifierItem is idempotent per key.  A call whose    *)
(* key is in the item set already leaves the set as it is, emits nothing   *)
(* and spawns no task; a call whose key is new inserts it, emits           *)
(* StatusNotifierItemRegistered(key) and one properties-changed, and       *)
(* spawns one task.                                                        *)
(***************************************************************************)
C16_RegisterStep ==
    \A sender \in Dests, service \in ServiceArgs :
        LET sp == parse_service(service, sender)
            key == ItemKey(sp.service, sp.objpath) IN
        (/\ alive[sender]
         /\ sp.ok
         /\ watcher' = Served(RegisterStatusNotifierItem(watcher, sender, service))) =>
            IF key \in watcher.items
            THEN /\ watcher'.items = watcher.items
                 /\ NothingEmitted
                 /\ watcher'.tasks = watcher.tasks
            ELSE /\ watcher'.items = watcher.items \cup {key}
                 /\ EmittedBy(ItemRegistered(key)) = 1
                 /\ EmittedBy(ItemsChanged) = 1
                 /\ \A g \in Signals \ {ItemRegistered(key), ItemsChanged} : EmittedBy(g) = 0
                 /\ BagCardinality(watcher'.tasks) = BagCardinality(watcher.tasks) + 1

\* every registration signal comes from a step that inserts its key
C16_SignalMeansNew ==
    \A k \in AllKeys :
        EmittedBy(ItemRegistered(k)) > 0 =>
            /\ k \notin watcher.items
            /\ k \in watcher'.items
            /\ EmittedBy(ItemRegistered(k)) = 1

C16_RegisterIdempotent == [][C16_RegisterStep /\ C16_SignalMeansNew]_vars

\* the same item was registered twice and announced once
C16_Witness ==
    \E k \in AllKeys :
        /\ watcher.calls = 2
        /\ watcher.last = "Ok"
        /\ watcher.items = {k}
        /\ watcher.hosts = {}
        /\ watcher.emitted = Emit(NewWatcher.emitted, {ItemRegistered(k), ItemsChanged})
        /\ BagCardinality(watcher.tasks) = 1

(***************************************************************************)
(* C17: normalization of the service argument.  For a peer U on the bus    *)
(* the path /StatusNotifierItem sent by U, the name U and a well-known     *)
(* name that U owns all give (U, /StatusNotifierItem); another path sent   *)
(* by U gives (U, path); and the canonical key <U><path> gives (U, path)   *)
(* again.                                                                  *)
(***************************************************************************)
C17_ThreeShapes ==
    \A U \in Dests :
        alive[U] =>
            /\ parse_service(ITEM_OBJECT, U) = ParseOk(U, ITEM_OBJECT)
            /\ parse_service(U, U) = ParseOk(U, ITEM_OBJECT)
            /\ get_name_owner(WELL_KNOWN) = U =>
                  parse_service(WELL_KNOWN, U) = ParseOk(U, ITEM_OBJECT)
            /\ parse_service(ALT_OBJECT, U) = ParseOk(U, ALT_OBJECT)

C17_Idempotent ==
    \A U \in Dests, sender \in Dests, p \in Paths :
        alive[U] => parse_service(ItemKey(U, p), sender) = ParseOk(U, p)

C17_Normalization == C17_ThreeShapes /\ C17_Idempotent

(***************************************************************************)
(* C18: a register or unregister call whose service argument neither       *)
(* begins with "/" nor is a bus name fails with InvalidArgs; the host set  *)
(* and the item set stay as they are, nothing is emitted and no task is    *)
(* spawned.                                                                *)
(***************************************************************************)
Malformed(service) == service[1] # "/" /\ ~IsBusName(service)

C18_Rejected ==
    \A sender \in Dests, service \in ServiceArgs :
        (/\ alive[sender]
         /\ Malformed(service)
         /\ \/ watcher' = Served(RegisterStatusNotifierHost(watcher, sender, service))
            \/ watcher' = Served(RegisterStatusNotifierItem(watcher, sender, service))
            \/ watcher' = Served(UnregisterStatusNotifierItem(watcher, sender, service))) =>
            /\ watcher'.last = "InvalidArgs"
            /\ watcher'.hosts = watcher.hosts
            /\ watcher'.items = watcher.items
            /\ watcher'.tasks = watcher.tasks
            /\ NothingEmitted

C18_InvalidArgs == [][C18_Rejected]_vars

\* a malformed call was rejected while a host and an item were registered
C18_Witness ==
    /\ watcher.last = "InvalidArgs"
    /\ watcher.calls = MaxCalls
    /\ watcher.hosts # {}
    /\ watcher.items # {}

(***************************************************************************)
(* C19: IsStatusNotifierHostRegistered is true exactly when the host set   *)
(* is not empty.  Registering a host that is known changes nothing and     *)
(* emits nothing, registering a new host emits                             *)
(* StatusNotifierHostRegistered, and the properties-changed notification   *)
(* for the property is emitted exactly by the steps that take the host set *)
(* from empty to non-empty or back.                                        *)
(***************************************************************************)
\* the value a peer holds that reads the property once and then follows the
\* notifications
Notified == Emitted(HostsChanged) % 2 = 1

C19_PropertyIsNonEmpty ==
    /\ is_status_notifier_host_registered(watcher) <=> watcher.hosts # {}
    /\ Notified <=> is_status_notifier_host_registered(watcher)

C19_HostStep ==
    /\ EmittedBy(HostsChanged) = IF (watcher.hosts = {}) # (watcher'.hosts = {}) THEN 1 ELSE 0
    /\ EmittedBy(HostRegistered) = Cardinality(watcher'.hosts \ watcher.hosts)
    /\ \A sender \in Dests, service \in ServiceArgs :
          LET sp == parse_service(service, sender) IN
          (/\ alive[sender]
           /\ sp.ok
           /\ sp.service \in watcher.hosts
           /\ watcher' = Served(RegisterStatusNotifierHost(watcher, sender, service))) =>
              /\ watcher'.hosts = watcher.hosts
              /\ NothingEmitted
              /\ watcher'.tasks = watcher.tasks

C19_HostRegistered == []C19_PropertyIsNonEmpty /\ [][C19_HostStep]_vars

\* two hosts registered and both left: the set went from empty to non-empty
\* and back once
C19_Witness ==
    /\ watcher.hosts = {}
    /\ Emitted(HostRegistered) = 2
    /\ Emitted(HostUnregistered) = 2
    /\ Emitted(HostsChanged) = 2

(***************************************************************************)
(* C20: peer-death detection in the watcher is race-free.  Every entry of  *)
(* the two sets has a task that waits for its service; when every task is  *)
(* waiting for a signal and none is pending, no entry belongs to a peer    *)
(* that has left the bus, whenever the peer left; and the task that ends   *)
(* removes its entry and emits the unregistration and the                  *)
(* properties-changed notification.                                        *)
(***************************************************************************)
WatcherQuiet == \A task \in Tasks : task.pc = "loop" /\ ~task.sig

Watched(kind, entry) == \E task \in Tasks : task.kind = kind /\ task.entry = entry

C20_NoStaleEntry ==
    /\ \A k \in watcher.items : Watched("item", k)
    /\ \A h \in watcher.hosts : Watched("host", h)
    /\ WatcherQuiet =>
          /\ \A k \in watcher.items : alive[parse_address(k)[1]]
          /\ \A h \in watcher.hosts : alive[h]

\* the step that ends a task
C20_TaskEnd ==
    \A task \in Tasks :
        (task.pc = "gone" /\ watcher'.tasks = watcher.tasks (-) SetToBag({task})) =>
            IF task.kind = "item"
            THEN /\ task.entry \notin watcher'.items
                 /\ EmittedBy(ItemUnregistered(task.entry)) = 1
                 /\ EmittedBy(ItemsChanged) = 1
            ELSE /\ task.entry \notin watcher'.hosts
                 /\ EmittedBy(HostUnregistered) = 1
                 /\ EmittedBy(HostsChanged) = IF watcher.hosts = {task.entry} THEN 1 ELSE 0

C20_PeerDeathDetected == []C20_NoStaleEntry /\ [][C20_TaskEnd]_vars

\* the peer of an item left before the task had subscribed, and the task has
\* found that out from NameHasOwner
C20_Witness ==
    \E task \in Tasks :
        /\ task.kind = "item"
        /\ task.pc = "gone"
        /\ ~task.sig
        /\ task.entry \in watcher.items
        /\ ~alive[task.service]

(***************************************************************************)
(* C21: UnregisterStatusNotifierItem removes the item registered by the    *)
(* peer and emits the unregister signal for it.  A call with a path        *)
(* removes the key of the sender and that path; a call with a bus name     *)
(* removes every key registered for the owner of the name, whatever its    *)
(* object path; StatusNotifierItemUnregistered carries the removed key.    *)
(***************************************************************************)
\* the keys of the item set that the call is about
RegisteredFor(w, sp, service) ==
    IF service[1] = "/"
    THEN {ItemKey(sp.service, sp.objpath)} \cap w.items
    ELSE {k \in w.items : parse_address(k)[1] = sp.service}

C21_UnregisterStep ==
    \A sender \in Dests, service \in ServiceArgs :
        LET sp == parse_service(service, sender) IN
        (/\ alive[sender]
         /\ sp.ok
         /\ watcher' = Served(UnregisterStatusNotifierItem(watcher, sender, service))) =>
            \A k \in RegisteredFor(watcher, sp, service) :
                /\ k \notin watcher'.items
                /\ EmittedBy(ItemUnregistered(k)) = 1

C21_UnregisterRemoves == [][C21_UnregisterStep]_vars

(***************************************************************************)
(* A call of attach_to on a connection, or of Client::new, one step per    *)
(* await.  Another process may own WATCHER_BUS, and may take or leave it   *)
(* at any time.                                                            *)
(***************************************************************************)
\* the awaits of Client::new after the name of the host, in order
NewSteps == <<"proxy", "host_name", "register_host", "item_stream", "dbus_proxy",
              "name_acquired", "done">>

After(step) == NewSteps[(CHOOSE n \in 1..Len(NewSteps) : NewSteps[n] = step) + 1]

\* Client::new returns Err from the await named step
NewFails(c, step, err) ==
    [c EXCEPT !.pc = "done", !.result = ErrResult(err), !.failed = step]

\* attach_to has returned res to its caller
Attached(c, res) ==
    IF c.entry = "attach_to" THEN [c EXCEPT !.pc = "done", !.attach = res, !.result = res]
    ELSE IF res.kind = "Err" THEN [NewFails(c, "attach", res.err) EXCEPT !.attach = res]
    ELSE [c EXCEPT !.pc = "proxy", !.attach = res]

OtherWatcher ==
    /\ ctor.owner \in {"none", "other"}
    /\ ctor' = [ctor EXCEPT !.owner = IF @ = "none" THEN "other" ELSE "none"]
    /\ UNCHANGED exceptCtor

\* attach_to is called on a connection that may serve the path already
CallAttachTo ==
    /\ ctor.entry = "none"
    /\ \E exists \in BOOLEAN :
          ctor' = [ctor EXCEPT !.entry = "attach_to", !.pc = "at", !.exists = exists]
    /\ UNCHANGED exceptCtor

CallNew ==
    /\ ctor.entry = "none"
    /\ ctor' = [ctor EXCEPT !.entry = "new", !.pc = "session"]
    /\ UNCHANGED exceptCtor

\* Connection::session().await?
NewSession ==
    /\ ctor.pc = "session"
    /\ \E reply \in {"ok", "error"} :
          ctor' = IF reply = "ok" THEN [ctor EXCEPT !.pc = "at"]
                  ELSE NewFails(ctor, "session", reply)
    /\ UNCHANGED exceptCtor

\* con.object_server().at(WATCHER_OBJECT, self).await?
AttachAt ==
    /\ ctor.pc = "at"
    /\ \E at \in AtReplies(ctor.exists) :
          ctor' = IF at = "true"
                  THEN [ctor EXCEPT !.pc = "name", !.at = at, !.exists = TRUE]
                  ELSE Attached([ctor EXCEPT !.at = at], attach_to(at, ""))
    /\ UNCHANGED exceptCtor

\* con.request_name_with_flags(WATCHER_BUS, no flags).await
AttachRequestName ==
    /\ ctor.pc = "name"
    /\ \E reply \in WatcherNameReplies(ctor.owner) :
          ctor' = Attached([ctor EXCEPT !.reply = reply,
                                        !.owner = IF reply = "PrimaryOwner" THEN "self" ELSE @],
                           attach_to(ctor.at, reply))
    /\ UNCHANGED exceptCtor

\* the loop that asks for org.freedesktop.StatusNotifierHost-{pid}-{i}
NewHostName ==
    /\ ctor.pc = "host_name"
    /\ \E reply \in HostNameReplies :
          /\ reply \in {"Exists", "AlreadyOwner"} => ctor.i + 1 < MaxNames
          /\ ctor' = IF reply = "PrimaryOwner"
                     THEN [ctor EXCEPT !.i = @ + 1, !.pc = After("host_name")]
                     ELSE IF reply \in {"Exists", "AlreadyOwner"}
                     THEN [ctor EXCEPT !.i = @ + 1]
                     ELSE NewFails([ctor EXCEPT !.i = @ + 1], "host_name", reply)
    /\ UNCHANGED exceptCtor

\* the other awaits of Client::new, each followed by `?`
NewAwait ==
    /\ ctor.pc \in {"proxy", "register_host", "item_stream", "dbus_proxy", "name_acquired"}
    /\ \E reply \in {"ok", "error"} :
          ctor' = IF reply = "ok"
                  THEN [ctor EXCEPT !.pc = After(ctor.pc),
                                    !.result = IF After(ctor.pc) = "done" THEN OkResult ELSE @]
                  ELSE NewFails(ctor, ctor.pc, reply)
    /\ UNCHANGED exceptCtor

CtorNext ==
    \/ OtherWatcher
    \/ CallAttachTo
    \/ CallNew
    \/ NewSession
    \/ AttachAt
    \/ AttachRequestName
    \/ NewHostName
    \/ NewAwait

SpecNew == Init /\ [][CtorNext]_vars

(***************************************************************************)
(* C22, as the code has it: attach_to fails when the path is served        *)
(* already, and succeeds when the name of the watcher has an owner;        *)
(* Client::new fails when the session bus cannot be reached, when          *)
(* attach_to fails, and also when any later call of the construction       *)
(* fails: the proxies, the name of the host, the registration of the host  *)
(* and the two signal streams.                                             *)
(***************************************************************************)
AttachReturned == ctor.attach.kind # "pending"

C22_AttachArbitration ==
    AttachReturned =>
        /\ ctor.at = "false" => ctor.attach = ErrResult("Failure")
        /\ (ctor.at = "true" /\ ctor.reply \in {"NameTaken", "InQueue", "Exists"}) =>
              ctor.attach = OkResult
        /\ ctor.attach.kind = "Ok" => ctor.at = "true" /\ ctor.reply # "error"

C22_NewFailsOnAnyStep ==
    (ctor.entry = "new" /\ ctor.pc = "done") =>
        /\ ctor.result.kind = "Err" <=> ctor.failed # ""
        /\ ctor.failed = "attach" <=> (AttachReturned /\ ctor.attach.kind = "Err")
        /\ ctor.failed \in {"", "session", "attach", "proxy", "host_name", "register_host",
                            "item_stream", "dbus_proxy", "name_acquired"}

C22_Arbitration == C22_AttachArbitration /\ C22_NewFailsOnAnyStep

\* Client::new has returned Ok although another process owns the name of
\* the watcher and the first name tried for the host was taken
C22_Witness ==
    /\ ctor.entry = "new"
    /\ ctor.pc = "done"
    /\ ctor.result = OkResult
    /\ ctor.reply = "NameTaken"
    /\ ctor.i = 2

(***************************************************************************)
(* C22, as stated: attach_to fails when the path is served already and     *)
(* succeeds when the name has an owner, and Client::new fails only on a    *)
(* session-bus connection error or on an attachment error.                 *)
(***************************************************************************)
C22_NewFailsOnlyOnAttach ==
    /\ C22_AttachArbitration
    /\ (ctor.entry = "new" /\ ctor.result.kind = "Err") => ctor.failed \in {"session", "attach"}

(***************************************************************************)
(* Decoding an ItemsPropertiesUpdated payload (src/src/menu.rs).  A        *)
(* payload has an array of (id, dictionary) and an array of (id, names);   *)
(* a dictionary maps some keys to values, all written as strings here.     *)
(***************************************************************************)
MenuIds == {7, 9}

\* the dictionaries of an updated entry
Dicts ==
    {[k \in {} |-> ""],
     [k \in {"enabled"} |-> "false"],
     [k \in {"label"} |-> "Open"],
     [k \in {"enabled"} |-> "not-a-bool"],
     [k \in {"icon-data"} |-> "not-an-array"]}

\* the name lists of a removed entry
NameLists == {<<>>, <<"icon-name">>, <<"label">>}

UpTo(S, n) == UNION {[1..m -> S] : m \in 0..n}

Payloads ==
    [updated : UpTo([id : MenuIds, fields : Dicts], MaxEntries),
     removed : UpTo([id : MenuIds, fields : NameLists], MaxEntries)]

\* MenuItemUpdate::default()
NoUpdate == [label |-> None, enabled |-> None]

\* TryFrom<UpdatedProps> for MenuItemUpdate: Err when icon-data is not an
\* array; a label of another type is Some(None), an enabled of another type
\* is None
MenuItemUpdateFrom(dict) ==
    IF "icon-data" \in DOMAIN dict /\ dict["icon-data"] = "not-an-array"
    THEN [ok |-> FALSE, update |-> NoUpdate]
    ELSE [ok |-> TRUE,
          update |-> [label |-> IF "label" \in DOMAIN dict THEN dict["label"] ELSE None,
                      enabled |-> IF "enabled" \in DOMAIN dict
                                     /\ dict["enabled"] \in {"true", "false"}
                                  THEN dict["enabled"] ELSE None]]

\* MenuDiff { id, ..Default::default() }
NewDiff(id) == [id |-> id, update |-> NoUpdate, remove |-> <<>>]

\* the map of try_from, as the list of its values
HasId(res, id) == \E n \in 1..Len(res) : res[n].id = id

\* a faulty map that keeps a value per insertion
insert_always(res, diff) == Append(res, diff)

\* HashMap::insert: the value of the key is replaced
insert(res, diff) ==
    IF HasId(res, diff.id)
    THEN [n \in 1..Len(res) |-> IF res[n].id = diff.id THEN diff ELSE res[n]]
    ELSE Append(res, diff)

\* res.entry(id).or_insert_with(..), then update.remove = names
set_remove(res, id, names) ==
    LET with == IF HasId(res, id) THEN res ELSE insert(res, NewDiff(id)) IN
    [n \in 1..Len(with) |-> IF with[n].id = id THEN [with[n] EXCEPT !.remove = names]
                            ELSE with[n]]

RECURSIVE for_updated(_, _)
for_updated(res, updated) ==
    IF updated = <<>> THEN [ok |-> TRUE, res |-> res]
    ELSE LET u == Head(updated)
             decoded == MenuItemUpdateFrom(u.fields) IN
         IF ~decoded.ok THEN [ok |-> FALSE, res |-> <<>>]
         ELSE for_updated(insert(res, [NewDiff(u.id) EXCEPT !.update = decoded.update]),
                          Tail(updated))

RECURSIVE for_removed(_, _)
for_removed(res, removed) ==
    IF removed = <<>> THEN res
    ELSE for_removed(set_remove(res, Head(removed).id, Head(removed).fields), Tail(removed))

\* TryFrom<PropertiesUpdate> for Vec<MenuDiff>, up to the order of the result
menu_diffs(payload) ==
    LET after == for_updated(<<>>, payload.updated) IN
    IF after.ok THEN [ok |-> TRUE, res |-> for_removed(after.res, payload.removed)]
    ELSE after

\* the orders res.into_values() can give
Orders(res) ==
    {v \in [1..Len(res) -> {res[n] : n \in 1..Len(res)}] :
        \E perm \in [1..Len(res) -> 1..Len(res)] :
            /\ \A a, b \in 1..Len(res) : perm[a] = perm[b] => a = b
            /\ \A n \in 1..Len(res) : v[n] = res[perm[n]]}

InitMenuDiffs ==
    /\ InitExceptConv
    /\ watcherItems = {}
    /\ \E payload \in Payloads :
          conv = [f |-> "menu_diffs", pc |-> "call", input |-> payload,
                  ok |-> FALSE, out |-> <<>>]

DecodePayload ==
    /\ conv.f = "menu_diffs"
    /\ conv.pc = "call"
    /\ LET result == menu_diffs(conv.input) IN
       \E out \in Orders(result.res) :
          conv' = [conv EXCEPT !.pc = "done", !.ok = result.ok, !.out = out]
    /\ UNCHANGED exceptConv

SpecMenuDiffs == InitMenuDiffs /\ [][DecodePayload]_vars

\* the ids, entries and diffs of a decoded payload
Touched(payload) ==
    {payload.updated[n].id : n \in 1..Len(payload.updated)}
    \cup {payload.removed[n].id : n \in 1..Len(payload.removed)}
EntriesOf(array, id) == {n \in 1..Len(array) : array[n].id = id}
DiffsOf(id) == {n \in 1..Len(conv.out) : conv.out[n].id = id}
Decoded == conv.f = "menu_diffs" /\ conv.pc = "done" /\ conv.ok

KeysSet(update) == {k \in {"label", "enabled"} : update[k] # None}

C24_DuplicatesMerged ==
    Decoded =>
        \A id \in Touched(conv.input) :
            \E n \in DiffsOf(id) :
                /\ \A u \in EntriesOf(conv.input.updated, id) :
                      KeysSet(MenuItemUpdateFrom(conv.input.updated[u].fields).update)
                          \subseteq KeysSet(conv.out[n].update)
                /\ \A r \in EntriesOf(conv.input.removed, id) :
                      \A m \in 1..Len(conv.input.removed[r].fields) :
                          \E x \in 1..Len(conv.out[n].remove) :
                              conv.out[n].remove[x] = conv.input.removed[r].fields[m]

(***************************************************************************)
(* parse_address on its own (src/src/client.rs), applied to the addresses  *)
(* of its tests and to every address of up to MaxAddress tokens.           *)
(***************************************************************************)
UNNAMED == <<":1.58", "/", "StatusNotifierItem">>
NAMED == <<":1.72", "/", "org", "/", "ayatana", "/", "NotificationItem", "/",
           "dropbox_client_1398">>
BARE == <<":1.9">>

Addresses ==
    {UNNAMED, NAMED, BARE}
    \cup UpTo({":1.9", "/", "org", "StatusNotifierItem"}, MaxAddress)

InitParseAddress ==
    /\ InitExceptConv
    /\ watcherItems = {}
    /\ \E address \in Addresses :
          conv = [f |-> "parse_address", pc |-> "call", input |-> address,
                  out |-> <<<<>>, <<>>>>]

ParseAddress ==
    /\ conv.f = "parse_address"
    /\ conv.pc = "call"
    /\ conv' = [conv EXCEPT !.pc = "done", !.out = parse_address(conv.input)]
    /\ UNCHANGED exceptConv

SpecParseAddress == InitParseAddress /\ [][ParseAddress]_vars

(***************************************************************************)
(* C25: parse_address splits an address at its first "/" into destination  *)
(* and path, the path keeping the "/", and gives the path                  *)
(* /StatusNotifierItem to an address without "/".  The three addresses of  *)
(* the claim give the results it names, and an address that has a "/"      *)
(* is the concatenation of its destination and its path.                   *)
(***************************************************************************)
NoSlash(s) == \A n \in 1..Len(s) : s[n] # "/"

C25_ParseAddress ==
    (conv.f = "parse_address" /\ conv.pc = "done") =>
        LET destination == conv.out[1]
            path == conv.out[2] IN
        /\ conv.input = UNNAMED => conv.out = <<<<":1.58">>, ITEM_OBJECT>>
        /\ conv.input = NAMED =>
              conv.out = <<<<":1.72">>, <<"/", "org", "/", "ayatana", "/", "NotificationItem",
                                          "/", "dropbox_client_1398">>>>
        /\ conv.input = BARE => conv.out = <<<<":1.9">>, ITEM_OBJECT>>
        /\ NoSlash(destination)
        /\ path # <<>> /\ path[1] = "/"
        /\ IF NoSlash(conv.input)
           THEN destination = conv.input /\ path = ITEM_OBJECT
           ELSE destination \o path = conv.input

\* the address of the test parse_named has been split
C25_Witness ==
    /\ conv.f = "parse_address"
    /\ conv.pc = "done"
    /\ conv.input = NAMED
    /\ conv.out[1] = <<":1.72">>
    /\ Len(conv.out[2]) = 8

(***************************************************************************)
(* A StatusNotifierItem, the property dictionary that stands for it on the *)
(* bus, and TryFrom<DBusProps> (src/src/item.rs).  An Option is a record   *)
(* with `some`; a pixmap on the bus is the structure (width, height, data).*)
(***************************************************************************)
Some(v) == [some |-> TRUE, v |-> v]
Nothing == [some |-> FALSE]

Categories == {"ApplicationStatus", "Communications", "SystemServices", "Hardware"}
Statuses == {"Unknown", "Passive", "Active", "NeedsAttention"}
\* the number of values of the window id and the largest positive one, with
\* 16 bits where the code has the 32 of i32 and u32
U32 == 65536
I32_MAX == 32767

\* a square pixmap, one that is wider than high, and no pixmap at all
PixmapLists ==
    {<<>>,
     <<[width |-> 1, height |-> 1, pixels |-> <<255>>]>>,
     <<[width |-> 2, height |-> 1, pixels |-> <<255, 0>>]>>}

SniItems ==
    [id : {"foo"},
     category : Categories,
     title : {Nothing, Some("Title")},
     status : Statuses,
     window_id : {0, 7, U32 - 1},
     icon_pixmap : {Nothing} \cup {Some(l) : l \in PixmapLists},
     item_is_menu : BOOLEAN,
     menu : {Nothing, Some(MENU_PATH)}]

\* a dictionary with one more entry
With(dict, key, value) ==
    [k \in DOMAIN dict \cup {key} |-> IF k = key THEN value ELSE dict[k]]

WithOption(dict, key, option) ==
    IF option.some THEN With(dict, key, option.v) ELSE dict

\* the dictionary of an item: strings for the enums, an int32 for the
\* window, a(iiay) for the pixmaps; an absent Option has no entry, and with
\* `bare` neither has a value that is the default
encode(item, bare) ==
    LET must == [k \in {"Id"} |-> item.id]
        cat == IF bare /\ item.category = "ApplicationStatus" THEN must
               ELSE With(must, "Category", item.category)
        sta == IF bare /\ item.status = "Unknown" THEN cat
               ELSE With(cat, "Status", item.status)
        win == IF bare /\ item.window_id = 0 THEN sta
               ELSE With(sta, "WindowId",
                         IF item.window_id > I32_MAX THEN item.window_id - U32
                         ELSE item.window_id)
        isMenu == IF bare /\ ~item.item_is_menu THEN win
                  ELSE With(win, "ItemIsMenu", item.item_is_menu)
        pix == IF item.icon_pixmap.some
               THEN With(isMenu, "IconPixmap",
                         [n \in 1..Len(item.icon_pixmap.v) |->
                             <<item.icon_pixmap.v[n].width, item.icon_pixmap.v[n].height,
                               item.icon_pixmap.v[n].pixels>>])
               ELSE isMenu IN
    WithOption(WithOption(pix, "Title", item.title), "Menu", item.menu)

\* impl From<&str> for Category
CategoryFrom(value) ==
    IF value \in {"Communications", "SystemServices", "Hardware"} THEN value
    ELSE "ApplicationStatus"

\* IconPixmap::from_array: width and height are both read from the first
\* field of the structure
from_array(array) ==
    [n \in 1..Len(array) |->
        [width |-> array[n][1], height |-> array[n][1], pixels |-> array[n][3]]]

\* props.get(key), for a key whose value has the type asked for
Get(props, key) == IF key \in DOMAIN props THEN Some(props[key]) ELSE Nothing

\* TryFrom<DBusProps> for StatusNotifierItem, for a dictionary whose values
\* have the types of the interface
try_from(props) ==
    IF "Id" \notin DOMAIN props THEN [ok |-> FALSE, item |-> Nothing]
    ELSE [ok |-> TRUE,
          item |->
            [id |-> props["Id"],
             title |-> Get(props, "Title"),
             status |-> IF "Status" \in DOMAIN props THEN StatusFrom(props["Status"])
                        ELSE "Unknown",
             window_id |-> IF "WindowId" \in DOMAIN props THEN props["WindowId"] % U32
                           ELSE 0,
             icon_pixmap |-> IF "IconPixmap" \in DOMAIN props
                             THEN Some(from_array(props["IconPixmap"])) ELSE Nothing,
             item_is_menu |-> IF "ItemIsMenu" \in DOMAIN props THEN props["ItemIsMenu"]
                              ELSE FALSE,
             category |-> IF "Category" \in DOMAIN props THEN CategoryFrom(props["Category"])
                          ELSE "ApplicationStatus",
             menu |-> Get(props, "Menu")]]

InitRoundTrip ==
    /\ InitExceptConv
    /\ watcherItems = {}
    /\ \E item \in SniItems :
          conv = [f |-> "try_from", pc |-> "item", input |-> item,
                  props |-> [k \in {} |-> ""], ok |-> FALSE, out |-> Nothing]

EncodeItem ==
    /\ conv.f = "try_from"
    /\ conv.pc = "item"
    /\ \E bare \in BOOLEAN :
          conv' = [conv EXCEPT !.pc = "props", !.props = encode(conv.input, bare)]
    /\ UNCHANGED exceptConv

DecodeProps ==
    /\ conv.f = "try_from"
    /\ conv.pc = "props"
    /\ LET result == try_from(conv.props) IN
       conv' = [conv EXCEPT !.pc = "decoded", !.ok = result.ok, !.out = result.item]
    /\ UNCHANGED exceptConv

SpecRoundTrip == InitRoundTrip /\ [][EncodeItem \/ DecodeProps]_vars

(***************************************************************************)
(* C26: decoding is the inverse of encoding: for every StatusNotifierItem, *)
(* decoding the dictionary that stands for it succeeds and gives the item  *)
(* back, also when optionals are absent, when values that are the default  *)
(* are left out, and when a pixmap is not square.                          *)
(***************************************************************************)
C26_RoundTrip ==
    (conv.f = "try_from" /\ conv.pc = "decoded") => conv.ok /\ conv.out = conv.input

(***************************************************************************)
(* Vocabulary of the claims about one iteration of the item tracker.       *)
(***************************************************************************)
\* the step is an iteration of tracker i that takes a signal
TakesSignal(i) ==
    /\ Len(trackers') = Len(trackers)
    /\ trackers[i].pc = "loop"
    /\ Len(trackers'[i].sigs) < Len(trackers[i].sigs)

StatusSent(d) == {n \in 1..Len(Sent(d)) : Sent(d)[n].t = "Status"}

(***************************************************************************)
(* C27, as the code has it: the tracker takes the signals of its item in   *)
(* the order the peer emitted them, one per iteration, and an iteration    *)
(* broadcasts at most one event: Update(address, Status(_)) when the Get   *)
(* for the signal gave a string, nothing otherwise.  No other step         *)
(* broadcasts a Status.  Hence the Status events of an address are in      *)
(* signal order, one for each signal whose Get succeeded.                  *)
(***************************************************************************)
C27_Iteration ==
    \A i \in DOMAIN trackers :
        TakesSignal(i) =>
            LET d == trackers[i].dest IN
            /\ trackers'[i].sigs = Tail(trackers[i].sigs)
            /\ Len(Sent(d)) <= 1
            /\ \A n \in 1..Len(Sent(d)) : Sent(d)[n].t = "Status"
            /\ \A e \in Dests \ {d} : Sent(e) = <<>>
            /\ items' = items

C27_StatusFromSignal ==
    \A d \in Dests :
        StatusSent(d) # {} =>
            \E i \in DOMAIN trackers : trackers[i].dest = d /\ TakesSignal(i)

TrackerTransportError(i) ==
    /\ trackers[i].pc \in {"loop", "half"}
    /\ used.events < MaxBusEvents
    /\ used' = [used EXCEPT !.events = @ + 1]
    /\ trackers' = RemoveAt(trackers, i)
    /\ UNCHANGED <<alive, watcherItems, regQueue, acqQueue, items, log, stream, initial,
                   menus, consumer>>
    /\ UNCHANGED otherVars

\* props_changed.next() gives None: the pattern Some(change) does not match,
\* select! disables the branch and waits for the other one
TrackerStreamEnd(i) ==
    /\ trackers[i].pc = "loop"
    /\ trackers[i].sigs = <<>>
    /\ used.events < MaxBusEvents
    /\ used' = [used EXCEPT !.events = @ + 1]
    /\ trackers' = Update(trackers, i, [trackers[i] EXCEPT !.pc = "half"])
    /\ UNCHANGED <<alive, watcherItems, regQueue, acqQueue, items, log, stream, initial,
                   menus, consumer>>
    /\ UNCHANGED otherVars

\* disconnect_stream ends as well: select! has no branch left and no else,
\* and the task panics
TrackerNoBranchLeft(i) ==
    /\ trackers[i].pc = "half"
    /\ ~trackers[i].disc
    /\ used.events < MaxBusEvents
    /\ used' = [used EXCEPT !.events = @ + 1]
    /\ trackers' = RemoveAt(trackers, i)
    /\ UNCHANGED <<alive, watcherItems, regQueue, acqQueue, items, log, stream, initial,
                   menus, consumer>>
    /\ UNCHANGED otherVars

TrackerNext ==
    \/ Next
    \/ \E i \in DOMAIN trackers : TrackerTransportError(i)
    \/ \E i \in DOMAIN trackers : TrackerStreamEnd(i)
    \/ \E i \in DOMAIN trackers : TrackerNoBranchLeft(i)

SpecTracker == Init /\ [][TrackerNext]_vars

\* what a tracker does for an address it gives up: Unregister on the
\* watcher, the address out of the store, Remove broadcast, the task over
GivesUp(i) ==
    LET d == trackers[i].dest IN
    /\ watcherItems' = unregister_status_notifier_item(watcherItems, d)
    /\ d \notin DOMAIN items'
    /\ Sent(d) = <<Ev("Remove", None)>>
    /\ Len(trackers') = Len(trackers) - 1

(***************************************************************************)
(* C28: a transport error inside the loop of an item tracker is surfaced   *)
(* as a Remove: the tracker exits, Unregister is called on the watcher,    *)
(* the address is removed from the store and Remove(address) is broadcast. *)
(***************************************************************************)
C28_TransportErrorRemoves ==
    [][\A i \in DOMAIN trackers : TrackerTransportError(i) => GivesUp(i)]_vars

(***************************************************************************)
(* C29: when the signal stream of an item ends while its tracker is        *)
(* running, the tracker removes the address from the store, broadcasts     *)
(* Remove(address) and exits.                                              *)
(***************************************************************************)
C29_StreamEndRemoves ==
    [][\A i \in DOMAIN trackers :
          TrackerStreamEnd(i) =>
              /\ trackers[i].dest \notin DOMAIN items'
              /\ Sent(trackers[i].dest) = <<Ev("Remove", None)>>
              /\ Len(trackers') = Len(trackers) - 1]_vars

(***************************************************************************)
(* C30: a failure for one update is not fatal.  When the Get for a New<X>  *)
(* signal fails or gives a value of the wrong type, the item tracker       *)
(* broadcasts nothing, leaves the store as it is and keeps running; and    *)
(* when an ItemsPropertiesUpdated payload does not decode, the menu        *)
(* tracker broadcasts nothing, leaves the store as it is and keeps         *)
(* running.                                                                *)
(***************************************************************************)
NothingSent == log' = log

\* the item tracker: an iteration that took a signal and sent nothing
C30_ItemTrackerSurvives ==
    \A i \in DOMAIN trackers :
        (TakesSignal(i) /\ NothingSent) =>
            /\ items' = items
            /\ trackers'[i] = [trackers[i] EXCEPT !.sigs = Tail(@)]

\* the menu tracker: an iteration for ItemsPropertiesUpdated that sent nothing
C30_MenuTrackerSurvives ==
    \A j \in DOMAIN menus :
        (MenuPropertiesUpdated(j) /\ NothingSent) =>
            /\ items' = items
            /\ Len(menus') = Len(menus)
            /\ menus'[j].pc = "loop"

C30_FailureNotFatal == [][C30_ItemTrackerSurvives /\ C30_MenuTrackerSurvives]_vars

(***************************************************************************)
(* The mutexes in detail.  Each task is the list of its steps in source    *)
(* order: an await, a lock, the end of a guard's scope, or code that does  *)
(* neither.  A step names the steps that can follow it; 0 is the end of    *)
(* the task (a return, a `?` that propagates, the end of a loop), which    *)
(* drops every guard the task still holds.  pc[t] is the step task t has   *)
(* reached and not yet completed: a task whose pc is at an await is        *)
(* suspended there.                                                        *)
(***************************************************************************)
Await(next) == [op |-> "await", m |-> "none", next |-> next]
Sync(next) == [op |-> "sync", m |-> "none", next |-> next]
Lock(m, next) == [op |-> "lock", m |-> m, next |-> next]
Unlock(m, next) == [op |-> "unlock", m |-> m, next |-> next]

\* the task with a guard that lives as long as the task's loop
NameAcquiredHolding ==
    << Await({2, 0}),
       Sync({1, 3, 0}),
       Lock("items", {4}),
       Sync({4, 1, 0}) >>

\* client.rs 228-242: the task that clears the store when this watcher takes over
NameAcquiredTask ==
    << Await({2, 0}),          \* stream.next().await
       Sync({1, 3, 0}),        \* thing.args()?, body.name == WATCHER_BUS
       Lock("items", {4}),     \* let mut items = items.lock()
       Sync({4, 5, 0}),        \* items.remove(..); tx.send(Remove)?
       Unlock("items", {1}) >> \* the end of the if block

\* client.rs 256-321: handle_item
HandleItemTask ==
    << Await({2, 0}),          \* PropertiesProxy::builder(..).build().await?
       Await({3, 0}),          \* get_item_properties(..).await?
       Lock("items", {4}),     \* items.lock().insert(..)
       Unlock("items", {5}),   \* the end of the statement
       Sync({0}) >>            \* tx.send(Add)?, spawn, tx.send(MenuConnect)?, spawn

\* client.rs 347-407: watch_item_properties
WatchItemPropertiesTask ==
    << Await({2, 0}),          \* the proxies and the two streams, each .await?
       Await({3, 5}),          \* tokio::select!
       Await({4, 2}),          \* get_update_event(..).await
       Sync({2, 0}),           \* tx.send(Update)?
       Sync({2, 6, 0}),        \* signal.args()?, old == destination
       Await({7}),             \* StatusNotifierWatcherProxy::new(..).await
       Await({8}),             \* unregister_status_notifier_item(old).await
       Lock("items", {9}),     \* items.lock().remove(..)
       Unlock("items", {10}),  \* the end of the statement
       Sync({0}) >>            \* tx.send(Remove)?; break

\* client.rs 466-558: watch_menu
WatchMenuTask ==
    << Await({2, 0}),          \* DBusMenuProxy::builder(..).build().await?
       Await({3, 0}),          \* get_layout(0, 10, &[]).await?
       Sync({4, 0}),           \* TrayMenu::try_from(menu)?
       Lock("items", {5}),     \* items.lock().get_mut(..), menu_cache.replace(..)
       Unlock("items", {6}),   \* the end of the if let
       Sync({7, 0}),           \* tx.send(Update(Menu))?
       Await({8, 0}),          \* receive_layout_updated().await?
       Await({9, 0}),          \* receive_items_properties_updated().await?
       Await({10, 15}),        \* tokio::select!
       Await({11, 0}),         \* timeout(1 s, get_layout).await, break on failure
       Sync({12, 0}),          \* TrayMenu::try_from(menu)?
       Lock("items", {13}),    \* items.lock().get_mut(..), menu_cache.replace(..)
       Unlock("items", {14}),  \* the end of the if let
       Sync({9, 0}),           \* tx.send(Update(Menu))?
       Sync({9, 0}) >>         \* deserialize?, try_from?, tx.send(Update(MenuDiff))?

\* status_notifier_watcher.rs 38-99, 121-181, 183-207, 115-118, 225-228: the
\* methods and properties of the watcher, served one at a time
WatcherMethodTask ==
    << Sync({2, 8, 14, 18, 20}), \* the call that arrives
       Await({3, 0}),          \* register_status_notifier_host: parse_service(..)?
       Lock("hosts", {4}),     \* let mut hosts = self.hosts.lock(); hosts.insert(..)
       Unlock("hosts", {5, 0}), \* the end of the block, or return Ok(()) in it
       Await({6, 0}),          \* is_status_notifier_host_registered_changed(..).await?
       Await({7, 0}),          \* status_notifier_host_registered(..).await?
       Sync({0}),              \* spawn
       Await({9, 0}),          \* register_status_notifier_item: parse_service(..)?
       Lock("items", {10}),    \* let mut items = self.items.lock(); items.insert(..)
       Unlock("items", {11, 0}), \* the end of the block, or return Ok(()) in it
       Await({12, 0}),         \* registered_status_notifier_items_changed(..).await?
       Await({13, 0}),         \* status_notifier_item_registered(..).await?
       Sync({0}),              \* spawn
       Await({15, 0}),         \* unregister_status_notifier_item: parse_service(..)?
       Lock("items", {16}),    \* self.items.lock().remove(..)
       Unlock("items", {17}),  \* the end of the statement
       Await({0}),             \* status_notifier_item_unregistered(..).await?
       Lock("hosts", {19}),    \* is_status_notifier_host_registered: hosts.lock()
       Unlock("hosts", {0}),   \* the end of the function
       Lock("items", {21}),    \* registered_status_notifier_items: items.lock()
       Unlock("items", {0}) >> \* the end of the function

\* status_notifier_watcher.rs 63-96: the task that waits for a host to exit
HostExitTask ==
    << Await({2, 0}),          \* wait_for_service_exit(..).await?
       Lock("hosts", {3}),     \* let mut hosts = hosts.lock(); hosts.remove(..)
       Unlock("hosts", {4, 5}), \* the end of the block
       Await({5, 0}),          \* is_status_notifier_host_registered_refresh(..).await?
       Await({0}) >>           \* status_notifier_host_unregistered(..).await?

\* status_notifier_watcher.rs 148-178: the task that waits for an item to exit
ItemExitTask ==
    << Await({2, 0}),          \* wait_for_service_exit(..).await?
       Lock("items", {3}),     \* let mut items = items.lock(); items.remove(..)
       Unlock("items", {4}),   \* the end of the block
       Await({5, 0}),          \* registered_status_notifier_items_refresh(..).await?
       Await({0}) >>           \* status_notifier_item_unregistered(..).await?

\* the tasks that share a mutex, in the client and in the watcher
LockTasks(side) ==
    IF side = "client"
    THEN {"name_acquired", "handle_item", "handle_initial", "watch_item_properties",
          "watch_menu"}
    ELSE {"method", "host_exit", "item_exit", "other_item_exit"}

\* client.rs 119: the store; status_notifier_watcher.rs 21-22: the two sets
Mutexes(side) == IF side = "client" THEN {"items"} ELSE {"hosts", "items"}

Program(t) ==
    CASE t = "name_acquired" -> NameAcquiredTask
      [] t \in {"handle_item", "handle_initial"} -> HandleItemTask
      [] t = "watch_item_properties" -> WatchItemPropertiesTask
      [] t = "watch_menu" -> WatchMenuTask
      [] t = "method" -> WatcherMethodTask
      [] t = "host_exit" -> HostExitTask
      [] t \in {"item_exit", "other_item_exit"} -> ItemExitTask

\* the runtime starts the tasks of one side
LockStart(side) ==
    /\ locks = NoLocks
    /\ locks' = [side |-> side,
                 pc |-> [t \in LockTasks(side) |-> 1],
                 holder |-> [m \in Mutexes(side) |-> "free"]]
    /\ UNCHANGED exceptLocks

\* what a guard dropped at the end of task t leaves of the holders
Dropped(holder, t) ==
    [m \in DOMAIN holder |-> IF holder[m] = t THEN "free" ELSE holder[m]]

\* task t completes the step it has reached; a lock waits for the mutex to be free
LockStep(t) ==
    /\ locks.side # "none"
    /\ t \in DOMAIN locks.pc
    /\ locks.pc[t] # 0
    /\ LET o == Program(t)[locks.pc[t]]
           after == CASE o.op = "lock" -> [locks.holder EXCEPT ![o.m] = t]
                      [] o.op = "unlock" -> [locks.holder EXCEPT ![o.m] = "free"]
                      [] OTHER -> locks.holder IN
          /\ o.op = "lock" => locks.holder[o.m] = "free"
          /\ \E n \in o.next :
                locks' = [locks EXCEPT !.pc[t] = n,
                                       !.holder = IF n = 0 THEN Dropped(after, t)
                                                  ELSE after]
    /\ UNCHANGED exceptLocks

\* a task that ended is spawned, or the function called, again
LockRespawn(t) ==
    /\ locks.side # "none"
    /\ t \in DOMAIN locks.pc
    /\ locks.pc[t] = 0
    /\ locks' = [locks EXCEPT !.pc[t] = 1]
    /\ UNCHANGED exceptLocks

LockNext ==
    \/ \E side \in {"client", "watcher"} : LockStart(side)
    \/ \E t \in LockTasks("client") \cup LockTasks("watcher") : LockStep(t)
    \/ \E t \in LockTasks("client") \cup LockTasks("watcher") : LockRespawn(t)

SpecLocks == Init /\ [][LockNext]_vars

\* task t is suspended at an await
AtAwait(t) == locks.pc[t] # 0 /\ Program(t)[locks.pc[t]].op = "await"
\* the mutexes task t holds
HeldBy(t) == {m \in DOMAIN locks.holder : locks.holder[m] = t}
\* task t waits for a mutex that another task holds
WaitsFor(t, u) ==
    /\ locks.pc[t] # 0
    /\ Program(t)[locks.pc[t]].op = "lock"
    /\ locks.holder[Program(t)[locks.pc[t]].m] = u

\* C31: no lock is held across a suspension point: a task that is suspended at
\* an await, or that has ended, holds neither the client's store mutex nor one
\* of the watcher's set mutexes, so a task that waits for a mutex waits for a
\* task that is running and not for one that is suspended.
C31_NoLockAcrossAwait ==
    \A t \in DOMAIN locks.pc :
        /\ (AtAwait(t) \/ locks.pc[t] = 0) => HeldBy(t) = {}
        /\ \A u \in DOMAIN locks.pc : WaitsFor(t, u) => ~AtAwait(u)

\* the name task holds the store mutex in its loop while handle_item waits for
\* it, the menu task is suspended at an await it reached after it used the
\* mutex, and the tracker is suspended in its call to the watcher
C31_Witness ==
    /\ locks.side = "client"
    /\ locks.pc["name_acquired"] = 4
    /\ locks.holder["items"] = "name_acquired"
    /\ WaitsFor("handle_item", "name_acquired")
    /\ locks.pc["watch_menu"] = 7
    /\ locks.pc["watch_item_properties"] = 7


(***************************************************************************)
(* data.rs: apply_menu_diffs on its own.  A menu is the list of its        *)
(* top-level items, an item its id, label and enabled flag; a diff is an   *)
(* id and an update in which None is a field that is not set.              *)
(***************************************************************************)
\* the updates of a diff: one that sets the label, one that sets enabled
Updates == {[label |-> "Open", enabled |-> None], [label |-> None, enabled |-> "false"]}

\* MenuItem before any diff
OldItem(id) == [id |-> id, label |-> "Old", enabled |-> "true"]

\* the cached menus: items with distinct ids, in either order
TrayMenus ==
    {m \in UpTo({OldItem(a) : a \in MenuIds}, 2) : \A i, j \in DOMAIN m : m[i].id = m[j].id => i = j}

\* the lists of diffs; 11 is an id that no item of the menu has
DiffLists == UpTo([id : MenuIds \cup {11}, update : Updates], MaxEntries)

\* data.rs 131-153: apply_menu_item_diff
apply_menu_item_diff(menu_item, update) ==
    [menu_item EXCEPT
        !.label = IF update.label # None THEN update.label ELSE @,
        !.enabled = IF update.enabled # None THEN update.enabled ELSE @]

\* data.rs 122-129: items i.. of submenus with diff_iter standing at diffs[next];
\* next_if takes the next diff only if it has the item's id
RECURSIVE ApplyFrom(_, _, _, _)
ApplyFrom(submenus, diffs, i, next) ==
    IF i > Len(submenus) THEN submenus
    ELSE IF next <= Len(diffs) /\ diffs[next].id = submenus[i].id
         THEN ApplyFrom([submenus EXCEPT ![i] = apply_menu_item_diff(@, diffs[next].update)],
                        diffs, i + 1, next + 1)
         ELSE ApplyFrom(submenus, diffs, i + 1, next)

apply_menu_diffs(tray_menu, diffs) == ApplyFrom(tray_menu, diffs, 1, 1)

InitApplyDiffs ==
    /\ InitExceptConv
    /\ watcherItems = {}
    /\ \E tray_menu \in TrayMenus, diffs \in DiffLists :
          conv = [f |-> "apply_menu_diffs", pc |-> "call",
                  input |-> [menu |-> tray_menu, diffs |-> diffs], out |-> <<>>]

ApplyMenuDiffs ==
    /\ conv.f = "apply_menu_diffs"
    /\ conv.pc = "call"
    /\ conv' = [conv EXCEPT !.pc = "done",
                            !.out = apply_menu_diffs(conv.input.menu, conv.input.diffs)]
    /\ UNCHANGED exceptConv

SpecApplyDiffs == InitApplyDiffs /\ [][ApplyMenuDiffs]_vars

\* the diffs of the input that have the id of item i of the menu
DiffsFor(i) == {n \in 1..Len(conv.input.diffs) : conv.input.diffs[n].id = conv.input.menu[i].id}

\* no two diffs of the input have the same id, as in a list menu_diffs produced
DistinctIds ==
    \A m, n \in 1..Len(conv.input.diffs) :
        conv.input.diffs[m].id = conv.input.diffs[n].id => m = n

\* C32: after apply_menu_diffs, for any menu and any list of diffs with
\* distinct ids in any order, each item whose id is the id of some diff has
\* every property that the diff's update sets, and an item with no matching
\* diff is unchanged.
C32_EveryDiffApplied ==
    (conv.f = "apply_menu_diffs" /\ conv.pc = "done" /\ DistinctIds) =>
        /\ Len(conv.out) = Len(conv.input.menu)
        /\ \A i \in 1..Len(conv.input.menu) :
              /\ DiffsFor(i) = {} => conv.out[i] = conv.input.menu[i]
              /\ \A n \in DiffsFor(i) :
                    LET update == conv.input.diffs[n].update IN
                    /\ update.label # None => conv.out[i].label = update.label
                    /\ update.enabled # None => conv.out[i].enabled = update.enabled

(***************************************************************************)
(* data.rs: TrayItemMap on its own.  The HashMap is the set of its         *)
(* (key, value) entries, so that a key with two entries can be told from   *)
(* a key with one.  Every operation takes the mutex for its whole body.    *)
(***************************************************************************)
\* the items a caller stores
StoreItems ==
    {[id |-> "app", status |-> "Active", menu |-> NoPath],
     [id |-> "app", status |-> "Passive", menu |-> MENU_PATH]}

\* the update events a caller folds in
StoreEvents ==
    {Ev("Status", "NeedsAttention"), Ev("Menu", "layout-2"), Ev("MenuConnect", MENU_PATH),
     Ev("MenuDiff", None)}

StoreKeys(map) == {e.dest : e \in map}

\* an insert that adds an entry and leaves the one the key had
new_item_keep(map, dest, item) ==
    map \cup {[dest |-> dest, item |-> item, menu |-> None]}

\* data.rs 33-43: lock.insert(dest, (item.clone(), None))
new_item(map, dest, item) ==
    {e \in map : e.dest # dest} \cup {[dest |-> dest, item |-> item, menu |-> None]}

\* data.rs 45-50: lock.remove(dest)
remove_item(map, dest) == {e \in map : e.dest # dest}

\* data.rs 52-61: lock.drain().map(|(k, _)| k).collect()
clear_items(map) == [map |-> {}, ret |-> StoreKeys(map)]

\* data.rs 63-79: get_mut(dest), menu_cache.replace(menu)
update_menu(map, dest, menu) ==
    {IF e.dest = dest THEN [e EXCEPT !.menu = menu] ELSE e : e \in map}

\* data.rs 81-119: get_mut(dest), then the match on the event
ApplyUpdateEvent(map, dest, event) ==
    {IF e.dest = dest THEN apply_update_event(e, event) ELSE e : e \in map}

\* TrayItemMap::new(); `last` is the call made last, `before` the map it met
NewStore == [f |-> "TrayItemMap", map |-> {}, before |-> {}, ret |-> {},
             last |-> [op |-> "new", dest |-> None, arg |-> None]]

InitStore ==
    /\ InitExceptConv
    /\ watcherItems = {}
    /\ conv = NewStore

Called(op, dest, arg, map, ret) ==
    /\ conv.f = "TrayItemMap"
    /\ conv' = [conv EXCEPT !.map = map, !.before = conv.map, !.ret = ret,
                            !.last = [op |-> op, dest |-> dest, arg |-> arg]]
    /\ UNCHANGED exceptConv

CallNewItem(dest, item) ==
    Called("new_item", dest, item, new_item(conv.map, dest, item), conv.ret)

CallRemoveItem(dest) ==
    Called("remove_item", dest, None, remove_item(conv.map, dest), conv.ret)

CallClearItems ==
    Called("clear_items", None, None, clear_items(conv.map).map, clear_items(conv.map).ret)

CallUpdateMenu(dest, menu) ==
    Called("update_menu", dest, menu, update_menu(conv.map, dest, menu), conv.ret)

CallApplyUpdateEvent(dest, event) ==
    Called("apply_update_event", dest, event, ApplyUpdateEvent(conv.map, dest, event),
           conv.ret)

StoreNext ==
    \/ \E dest \in Dests, item \in StoreItems : CallNewItem(dest, item)
    \/ \E dest \in Dests : CallRemoveItem(dest)
    \/ CallClearItems
    \/ \E dest \in Dests, menu \in Layouts : CallUpdateMenu(dest, menu)
    \/ \E dest \in Dests, event \in StoreEvents : CallApplyUpdateEvent(dest, event)

SpecStore == InitStore /\ [][StoreNext]_vars

\* the entries of the map for address a
EntriesAt(map, a) == {e \in map : e.dest = a}
\* the entries of the map for the other addresses
EntriesBut(map, a) == {e \in map : e.dest # a}

\* C33: the mutation surface of the store: after new_item(a, i) the store
\* holds a with item i and no menu, in place of any entry a had, and the
\* other entries as before; remove_item(a) removes a and nothing else;
\* clear_items returns exactly the addresses stored before it and leaves the
\* store empty; update_menu and apply_update_event for an address that is not
\* stored leave the store as it was; and no address ever has two entries.
C33_MutationSurface ==
    conv.f = "TrayItemMap" =>
        LET a == conv.last.dest IN
        /\ \A e, g \in conv.map : e.dest = g.dest => e = g
        /\ conv.last.op = "new_item" =>
              /\ EntriesAt(conv.map, a) = {[dest |-> a, item |-> conv.last.arg, menu |-> None]}
              /\ EntriesBut(conv.map, a) = EntriesBut(conv.before, a)
        /\ conv.last.op = "remove_item" =>
              /\ EntriesAt(conv.map, a) = {}
              /\ EntriesBut(conv.map, a) = EntriesBut(conv.before, a)
        /\ conv.last.op = "clear_items" =>
              /\ conv.ret = StoreKeys(conv.before)
              /\ conv.map = {}
        /\ (conv.last.op \in {"update_menu", "apply_update_event"}
               /\ a \notin StoreKeys(conv.before)) =>
              conv.map = conv.before

\* new_item has replaced an entry that had a menu and a changed status, while
\* the other address keeps its entry and its menu
C33_Witness ==
    /\ conv.f = "TrayItemMap"
    /\ conv.last.op = "new_item"
    /\ \E e \in conv.before :
          /\ e.dest = conv.last.dest
          /\ e.menu = "layout-2"
          /\ e.item.status = "NeedsAttention"
    /\ \E e \in conv.map : e.dest # conv.last.dest /\ e.menu = "layout-1"
    /\ Cardinality(conv.map) = 2


(***************************************************************************)
(* Discovery with a peer that never replies.  get_item_properties awaits   *)
(* GetAll with no timeout (client.rs 329-334), so the call to a peer that  *)
(* stays on the bus and does not answer never returns.  Every other peer   *)
(* answers with its properties.  The tasks are scheduled fairly: a task    *)
(* that can take a step takes it, and a reply that is due arrives.         *)
(***************************************************************************)
\* the peer that never replies
MUTE == <<":1.2">>

\* the result of GetAll for the stream task's item arrives, and is Ok
StreamReply ==
    /\ parse_address(stream.address)[1] # MUTE
    /\ StreamHandleItem
    /\ stream'.last = "Ok"

\* the result of GetAll for the initial task's item arrives, and is Ok
InitialReply ==
    /\ parse_address(initial.address)[1] # MUTE
    /\ InitialHandleItem
    /\ initial'.last = "Ok"

DiscoveryNext ==
    \/ RegisterItem
    \/ StreamNext
    \/ StreamReply
    \/ InitialFetch
    \/ InitialReply

SpecDiscovery ==
    /\ Init
    /\ [][DiscoveryNext]_vars
    /\ WF_vars(StreamNext)
    /\ WF_vars(StreamReply)
    /\ WF_vars(InitialFetch)
    /\ WF_vars(InitialReply)

\* an ItemRegistered signal for d waits in the stream, or d is an entry of the
\* initial list that has not been handled
Announced(d) ==
    \/ \E i \in 1..Len(regQueue) : parse_address(regQueue[i])[1] = d
    \/ initial.pc = "getall" /\ \E a \in initial.left : parse_address(a)[1] = d

Added(d) == \E i \in 1..Len(log[d]) : log[d][i].t = "Add"

\* the stream task, or the initial task, waits for the reply of the mute peer
FetchPending ==
    \/ stream.pc = "getall" /\ parse_address(stream.address)[1] = MUTE
    \/ initial.pc = "getall" /\ parse_address(initial.address)[1] = MUTE

\* C34: a peer that never replies to GetAll does not wedge discovery: an item
\* of another peer that is announced by ItemRegistered, or that is a remaining
\* entry of the initial list, is eventually Added, also while the fetch of the
\* mute peer's item is pending.
C34_DiscoveryNotWedged ==
    \A d \in Dests \ {MUTE} : (Announced(d) /\ FetchPending) ~> Added(d)


(***************************************************************************)
(* A connection that exports two item objects.  A peer registers an item   *)
(* at any of Paths, so one sender can register two.                        *)
(***************************************************************************)
\* status_notifier_watcher.rs 121-146 called with an object path by a peer
RegisterItemAt ==
    /\ used.events < MaxBusEvents
    /\ \E sender \in Dests, service \in Paths :
          register_status_notifier_item(sender, service)
    /\ used' = [used EXCEPT !.events = @ + 1]
    /\ UNCHANGED <<alive, acqQueue, items, log, stream, initial, trackers, menus, consumer>>
    /\ UNCHANGED otherVars

TwoPathsNext ==
    \/ RegisterItemAt
    \/ StreamNext
    \/ StreamHandleItem
    \/ InitialFetch
    \/ InitialHandleItem

SpecTwoPaths == Init /\ [][TwoPathsNext]_vars

\* the items handle_item has added: (destination, object path)
Handled == {<<trackers[i].dest, trackers[i].path>> : i \in DOMAIN trackers}

\* C35: two items registered from one connection at different object paths
\* are two items: each item that was added has a store entry of its own, so
\* the store has as many entries as items were added and the second Add does
\* not overwrite the entry of the first.
C35_TwoPathsTwoEntries == Cardinality(DOMAIN items) >= Cardinality(Handled)


\* C36: the watcher never emits more unregistrations than registrations: for
\* every key, at every point, the number of StatusNotifierItemUnregistered
\* signals emitted for it so far is at most the number of
\* StatusNotifierItemRegistered signals emitted for it so far, whatever the
\* order of the register and unregister calls and of the peer-death tasks.
C36_UnregisteredAtMostRegistered ==
    \A k \in AllKeys : Emitted(ItemUnregistered(k)) <= Emitted(ItemRegistered(k))


(***************************************************************************)
(* activate for an item that was announced.  Peers register items at any   *)
(* of Paths, the client adds them, and a consumer makes one Default or     *)
(* Secondary request with the address of an item that is in the store.     *)
(***************************************************************************)
\* client.rs 652-663: activate with the address an Add announced
ActivateAnnounced(shape) ==
    /\ DOMAIN call = {}
    /\ ActivateCall(shape)
    /\ call'[shape].req.address \in DOMAIN items

ActivateItemNext ==
    \/ RegisterItemAt
    \/ StreamNext
    \/ StreamHandleItem
    \/ InitialFetch
    \/ InitialHandleItem
    \/ \E shape \in {"Default", "Secondary"} : ActivateAnnounced(shape)
    \/ \E shape \in {"Default", "Secondary"} : ActivateProxy(shape)
    \/ \E shape \in {"Default", "Secondary"} : ActivateReply(shape)

SpecActivateItem == Init /\ [][ActivateItemNext]_vars

\* the object paths of the items of destination d that were added
AddedPaths(d) == {trackers[i].path : i \in {n \in DOMAIN trackers : trackers[n].dest = d}}

\* C37: Default and Secondary reach the item that was announced: when the
\* item added for destination D is at object path P, the call that activate
\* makes is Activate, or SecondaryActivate, on path P of D, also when P is not
\* /StatusNotifierItem.
C37_ActivateReachesItem ==
    \A shape \in DOMAIN call :
        LET c == call[shape] IN
        (c.pc \in {"sent", "done"} /\ c.sent # NoMethodCall) =>
            \A P \in Paths :
                AddedPaths(c.req.address) = {P} =>
                    /\ c.sent.dest = c.req.address
                    /\ c.sent.path = P
                    /\ c.sent.member = (IF shape = "Default" THEN "Activate"
                                        ELSE "SecondaryActivate")


(***************************************************************************)
(* The receivers of the broadcast channel.  Sender::send returns Err when  *)
(* no Receiver handle exists.  The Client keeps the receiver that          *)
(* broadcast::channel returned (client.rs 118, 249); consumers get theirs  *)
(* from subscribe and drop them when they like; the tasks keep their       *)
(* Sender clones after the Client is dropped.                              *)
(***************************************************************************)
MaxSubscribers == 2

\* a channel whose first receiver was dropped at the end of Client::new
ReceiverCountUnkept(c) == c.subs

\* the Receiver handles that exist: the Client's _rx and the consumers'
ReceiverCount(c) == (IF c.client = "alive" THEN 1 ELSE 0) + c.subs

\* tx.send(event)? in a task: Err ends the task
TaskSend ==
    /\ chan.sent < MaxSent
    /\ chan' = IF ReceiverCount(chan) = 0
               THEN [chan EXCEPT !.result = "Err", !.exited = 1]
               ELSE [send(chan) EXCEPT !.result = "Ok"]
    /\ UNCHANGED exceptChan

\* Client::subscribe
ConsumerSubscribe ==
    /\ chan.client = "alive"
    /\ chan.subs + chan.gone < MaxSubscribers
    /\ chan' = [chan EXCEPT !.subs = @ + 1, !.result = "none"]
    /\ UNCHANGED exceptChan

\* a consumer drops its receiver
ConsumerDrop ==
    /\ chan.subs > 0
    /\ chan' = [chan EXCEPT !.subs = @ - 1, !.gone = @ + 1, !.result = "none"]
    /\ UNCHANGED exceptChan

\* the Client is dropped, and its _rx with it
ClientDrop ==
    /\ chan.client = "alive"
    /\ chan' = [chan EXCEPT !.client = "dropped", !.result = "none"]
    /\ UNCHANGED exceptChan

ReceiversNext == TaskSend \/ ConsumerSubscribe \/ ConsumerDrop \/ ClientDrop

SpecReceivers == Init /\ [][ReceiversNext]_vars

\* C38: while the Client is alive a send by a task never fails for lack of
\* receivers, also when no consumer has subscribed or every subscriber has
\* dropped its receiver: a send returns Err, and a task exits through it,
\* only after the Client was dropped.
C38_SendOkWhileClientAlive ==
    /\ [](chan.client = "alive" => (chan.result # "Err" /\ chan.exited = 0))
    /\ [][(TaskSend /\ chan.client = "alive") => chan'.result = "Ok"]_vars

\* the Client is alive, every subscriber has come and gone, and the send made
\* last returned Ok
C38_Witness ==
    /\ chan.client = "alive"
    /\ chan.subs = 0
    /\ chan.gone = MaxSubscribers
    /\ chan.result = "Ok"
    /\ chan.sent > 1


\* address d has an Add that no Remove follows
Live(d) ==
    \E i \in Pos(d) : IsAdd(d, i) /\ \A k \in Pos(d) : k > i => ~IsRemove(d, k)

PeerLayoutChange ==
    \E d \in Dests :
        /\ alive[d]
        /\ peer[d] = "layout-1"
        /\ \E j \in DOMAIN menus : menus[j].dest = d /\ menus[j].pc \in {"sub", "loop"}
        /\ peer' = [peer EXCEPT ![d] = "layout-2"]
        /\ menus' = [k \in DOMAIN menus |->
                       IF menus[k].dest = d /\ menus[k].pc = "loop"
                       THEN [menus[k] EXCEPT !.layout = @ + 1]
                       ELSE menus[k]]
        /\ UNCHANGED <<alive, watcherItems, regQueue, acqQueue, items, log, stream, initial,
                       trackers, used, consumer>>
        /\ UNCHANGED <<chan, call, watcher, ctor, conv, locks>>

\* the layout_updated branch when GetLayout is answered in time with a layout
MenuRefetch(j) ==
    /\ MenuLayoutUpdated(j)
    /\ log' # log

MenuStartupNext ==
    \/ RegisterItem
    \/ StreamNext
    \/ StreamHandleItem
    \/ \E j \in DOMAIN menus : MenuInit(j)
    \/ \E j \in DOMAIN menus : MenuSubscribe(j)
    \/ \E j \in DOMAIN menus : MenuRefetch(j)
    \/ PeerLayoutChange

SpecMenuStartup ==
    /\ Init
    /\ [][MenuStartupNext]_vars
    /\ WF_vars(StreamNext)
    /\ WF_vars(StreamHandleItem)
    /\ \A j \in 1..MaxBusEvents :
          /\ WF_vars(j \in DOMAIN menus /\ MenuInit(j))
          /\ WF_vars(j \in DOMAIN menus /\ MenuSubscribe(j))
          /\ WF_vars(j \in DOMAIN menus /\ MenuRefetch(j))

\* Update(d, Menu(layout)) has been broadcast
MenuSent(d, layout) == \E i \in Pos(d) : log[d][i] = Ev("Menu", layout)

\* C40: no layout change is lost at menu startup: a LayoutUpdated that the
\* peer emits at any moment after it answered the first GetLayout, also before
\* the tracker has subscribed, eventually causes a re-fetch and an
\* Update(Menu) with the new layout, and the cached menu then is the peer's
\* latest layout.
C40_NoLayoutChangeLost ==
    \A d \in Dests :
        (peer[d] = "layout-2") ~>
            (MenuSent(d, "layout-2") /\ (d \in DOMAIN items => items[d].menu = "layout-2"))


====
